---- MODULE Spec2Model ----
(***************************************************************************)
(* Model of the email classification-and-response engine:                  *)
(*   backend/src/services/ai_service.py    (AIService)                     *)
(*   backend/src/services/email_service.py (EmailService)                  *)
(*   backend/src/models/email_model.py     (EmailRequest, EmailResponse)   *)
(*   backend/src/utils/config.py           (Config)                        *)
(*                                                                         *)
(* Texts are strings.  The confidences the engine returns are integers in  *)
(* thousandths (0.6 is 600); lexical scores are binary floating-point      *)
(* numbers, as in the code.                                                *)
(***************************************************************************)
EXTENDS Integers, Sequences, FiniteSets, TLC

(***************************************************************************)
(* Bounds of the model.                                                    *)
(***************************************************************************)
\* number of calls of classificar_email in one behaviour of Spec
MaxCalls == 2
\* number of calls of processar_email and processar_arquivo in one behaviour
\* of SpecProcessar
MaxProcessar == 1
\* number of classifications recorded in one behaviour of SpecHist
MaxRegistros == 102
\* number of texts in the batch of one behaviour of SpecLote
MaxLote == 2
\* calls of classificar_email that record nothing, in one run of SpecFrame
MaxLocais == 2
\* number of threads that call processar_email on one EmailService in SpecConc
MaxThreads == 2
\* largest multiple of 0.5, in halves of a unit, handed to the confidence
\* derivations in SpecLocal
MaxScore == 20

(***************************************************************************)
(* Python string primitives.                                               *)
(***************************************************************************)
Chr(s, i) == SubSeq(s, i, i)

Maiusculas == "ABCDEFGHIJKLMNOPQRSTUVWXYZÁÀÂÃÉÊÍÓÔÕÚÇ"
Minusculas == "abcdefghijklmnopqrstuvwxyzáàâãéêíóôõúç"
Digitos == {"0", "1", "2", "3", "4", "5", "6", "7", "8", "9"}
\* the ASCII characters str.isspace(), str.strip(), str.split() and \s take for
\* white space: space, \t, \n, \r, \f, and the characters 0x0B and 0x1C-0x1F,
\* written raw
Espacos == {" ", "\t", "\n", "\r", "\f", "", "", "", "", ""}

Letras == {Chr(Minusculas, i) : i \in 1..Len(Minusculas)}
          \cup {Chr(Maiusculas, i) : i \in 1..Len(Maiusculas)}
\* the pairs <<upper-case letter, its lower-case letter>>
ParaMinuscula == {<<Chr(Maiusculas, i), Chr(Minusculas, i)>> : i \in 1..Len(Maiusculas)}

\* str.isalnum() and str.isspace() of one character
EhAlnum(c) == c \in Letras \/ c \in Digitos
EhEspaco(c) == c \in Espacos

LetrasMaiusculas == {Chr(Maiusculas, i) : i \in 1..Len(Maiusculas)}

LowerChar(c) ==
    IF c \in LetrasMaiusculas
    THEN (CHOOSE p \in ParaMinuscula : p[1] = c)[2]
    ELSE c

RECURSIVE LowerFrom(_, _)
LowerFrom(s, i) == IF i > Len(s) THEN "" ELSE LowerChar(Chr(s, i)) \o LowerFrom(s, i + 1)

\* str.lower()
lower(s) == LowerFrom(s, 1)

\* str.strip()
strip(s) ==
    IF \A i \in 1..Len(s) : EhEspaco(Chr(s, i)) THEN ""
    ELSE LET a == CHOOSE i \in 1..Len(s) :
                    /\ ~EhEspaco(Chr(s, i))
                    /\ \A j \in 1..(i - 1) : EhEspaco(Chr(s, j))
             b == CHOOSE i \in 1..Len(s) :
                    /\ ~EhEspaco(Chr(s, i))
                    /\ \A j \in (i + 1)..Len(s) : EhEspaco(Chr(s, j))
         IN SubSeq(s, a, b)

\* s[:n]
Prefixo(s, n) == IF Len(s) <= n THEN s ELSE SubSeq(s, 1, n)

\* sub in s
Contem(s, sub) ==
    \E i \in 1..(Len(s) - Len(sub) + 1) : SubSeq(s, i, i + Len(sub) - 1) = sub

\* any(p in s for p in lista)
ContemAlguma(s, lista) == \E k \in 1..Len(lista) : Contem(s, lista[k])

(***************************************************************************)
(* re.search for the regular expressions the service uses.  A pattern is   *)
(* a sequence of items: a literal, \s+, a character class, \d{n}, \d+      *)
(* or .*                                                                   *)
(***************************************************************************)
Lit(x) == [t |-> "lit", s |-> x, cs |-> {}, n |-> 0]
Ws == [t |-> "ws", s |-> "", cs |-> {}, n |-> 0]
Cls(set) == [t |-> "cls", s |-> "", cs |-> set, n |-> 0]
Dig(k) == [t |-> "dig", s |-> "", cs |-> {}, n |-> k]
DigMais == [t |-> "digmais", s |-> "", cs |-> {}, n |-> 0]
Tudo == [t |-> "tudo", s |-> "", cs |-> {}, n |-> 0]

RECURSIVE MatchFrom(_, _, _, _)
MatchFrom(s, i, re, k) ==
    IF k > Len(re) THEN TRUE
    ELSE LET it == re[k] IN
      CASE it.t = "lit" ->
             /\ i + Len(it.s) - 1 <= Len(s)
             /\ SubSeq(s, i, i + Len(it.s) - 1) = it.s
             /\ MatchFrom(s, i + Len(it.s), re, k + 1)
        [] it.t = "ws" ->
             \E j \in (i + 1)..(Len(s) + 1) :
                /\ \A m \in i..(j - 1) : EhEspaco(Chr(s, m))
                /\ MatchFrom(s, j, re, k + 1)
        [] it.t = "cls" ->
             /\ i <= Len(s)
             /\ Chr(s, i) \in it.cs
             /\ MatchFrom(s, i + 1, re, k + 1)
        [] it.t = "dig" ->
             /\ i + it.n - 1 <= Len(s)
             /\ \A m \in i..(i + it.n - 1) : Chr(s, m) \in Digitos
             /\ MatchFrom(s, i + it.n, re, k + 1)
        [] it.t = "digmais" ->
             \E j \in (i + 1)..(Len(s) + 1) :
                /\ \A m \in i..(j - 1) : Chr(s, m) \in Digitos
                /\ MatchFrom(s, j, re, k + 1)
        [] it.t = "tudo" ->
             \E j \in i..(Len(s) + 1) :
                /\ \A m \in i..(j - 1) : Chr(s, m) # "\n"
                /\ MatchFrom(s, j, re, k + 1)

re_search(re, s) == \E i \in 1..(Len(s) + 1) : MatchFrom(s, i, re, 1)

Min(a, b) == IF a <= b THEN a ELSE b
Max(a, b) == IF a >= b THEN a ELSE b
Abs(a) == IF a >= 0 THEN a ELSE -a

(***************************************************************************)
(* Binary floating point.  The scores and the confidences of the code are  *)
(* Python floats: IEEE 754 binary64 numbers whose sums, differences,       *)
(* products and quotients are rounded to 53 significant bits, to nearest   *)
(* and ties to even.  The rounding decides comparisons: 1.5 + 1.2 + 1.2 +   *)
(* 1.2 is 5.1000000000000005 and greater than the literal 5.1.  A float is  *)
(* modelled exactly, as [sinal, mant, exp] with the value                  *)
(* (-1)^sinal * mant * 2^exp; mant is a natural number of exactly 53 bits, *)
(* or zero, written as the sequence of its digits in base 2^15, lowest     *)
(* digit first and highest digit not zero.  The same record with a mant of *)
(* any length is a dyadic number: the exact result of an operation, before *)
(* it is rounded.  The exponents of the values computed here stay far from *)
(* the ends of the binary64 range, so neither overflow nor subnormal       *)
(* numbers occur.                                                          *)
(***************************************************************************)
Base == 2 ^ 15

RECURSIVE NatDe(_)
\* the digits of the natural number n
NatDe(n) == IF n = 0 THEN <<>> ELSE <<n % Base>> \o NatDe(n \div Base)

RECURSIVE NatParaInt(_)
NatParaInt(a) == IF Len(a) = 0 THEN 0 ELSE a[1] + Base * NatParaInt(Tail(a))

RECURSIVE Aparar(_)
\* a without its high zero digits
Aparar(a) ==
    IF Len(a) > 0 /\ a[Len(a)] = 0 THEN Aparar(SubSeq(a, 1, Len(a) - 1)) ELSE a

Digito(a, i) == IF i <= Len(a) THEN a[i] ELSE 0

RECURSIVE NatSomaDesde(_, _, _, _)
NatSomaDesde(a, b, i, vai) ==
    IF i > Len(a) /\ i > Len(b) THEN NatDe(vai)
    ELSE <<(Digito(a, i) + Digito(b, i) + vai) % Base>>
         \o NatSomaDesde(a, b, i + 1, (Digito(a, i) + Digito(b, i) + vai) \div Base)

NatSoma(a, b) == NatSomaDesde(a, b, 1, 0)

RECURSIVE NatDifDesde(_, _, _, _)
NatDifDesde(a, b, i, empresta) ==
    IF i > Len(a) THEN <<>>
    ELSE <<(a[i] - Digito(b, i) - empresta) % Base>>
         \o NatDifDesde(a, b, i + 1, IF a[i] - Digito(b, i) - empresta < 0 THEN 1 ELSE 0)

\* a - b for a >= b
NatDif(a, b) == Aparar(NatDifDesde(a, b, 1, 0))

RECURSIVE NatCmpDesde(_, _, _)
NatCmpDesde(a, b, i) ==
    IF i = 0 THEN 0
    ELSE IF a[i] # b[i] THEN (IF a[i] < b[i] THEN -1 ELSE 1)
    ELSE NatCmpDesde(a, b, i - 1)

\* -1, 0 or 1 as a is less than, equal to or greater than b
NatCmp(a, b) ==
    IF Len(a) # Len(b) THEN (IF Len(a) < Len(b) THEN -1 ELSE 1)
    ELSE NatCmpDesde(a, b, Len(a))

RECURSIVE NatVezesDesde(_, _, _, _)
NatVezesDesde(a, d, i, vai) ==
    IF i > Len(a) THEN NatDe(vai)
    ELSE <<(a[i] * d + vai) % Base>> \o NatVezesDesde(a, d, i + 1, (a[i] * d + vai) \div Base)

\* a * d for a digit d
NatVezes(a, d) == IF d = 0 THEN <<>> ELSE NatVezesDesde(a, d, 1, 0)

RECURSIVE NatProdutoDesde(_, _, _)
NatProdutoDesde(a, b, i) ==
    IF i > Len(b) THEN <<>>
    ELSE NatSoma(NatVezes(a, b[i]), <<0>> \o NatProdutoDesde(a, b, i + 1))

NatProduto(a, b) == Aparar(NatProdutoDesde(a, b, 1))

Zeros(n) == [i \in 1..n |-> 0]

\* a * 2^k
NatEsquerda(a, k) ==
    IF Len(a) = 0 THEN <<>>
    ELSE Zeros(k \div 15) \o NatVezes(a, 2 ^ (k % 15))

RECURSIVE NatSobreDesde(_, _, _, _)
NatSobreDesde(a, d, i, resto) ==
    IF i = 0 THEN <<>>
    ELSE NatSobreDesde(a, d, i - 1, (resto * Base + a[i]) % d)
         \o <<(resto * Base + a[i]) \div d>>

\* a \div d for a digit d, d not zero
NatSobre(a, d) == Aparar(NatSobreDesde(a, d, Len(a), 0))

\* a \div 2^k
NatDireita(a, k) ==
    IF k \div 15 >= Len(a) THEN <<>>
    ELSE NatSobre(SubSeq(a, k \div 15 + 1, Len(a)), 2 ^ (k % 15))

RECURSIVE BitsDe(_)
BitsDe(n) == IF n = 0 THEN 0 ELSE 1 + BitsDe(n \div 2)

\* the number of bits of a
NatBits(a) == IF Len(a) = 0 THEN 0 ELSE 15 * (Len(a) - 1) + BitsDe(a[Len(a)])

RECURSIVE DigitoQuociente(_, _, _, _)
\* the greatest digit d + x, x < 2^(j + 1), with b * (d + x) <= r
DigitoQuociente(r, b, j, d) ==
    IF j < 0 THEN d
    ELSE IF NatCmp(NatVezes(b, d + 2 ^ j), r) <= 0
    THEN DigitoQuociente(r, b, j - 1, d + 2 ^ j)
    ELSE DigitoQuociente(r, b, j - 1, d)

RECURSIVE NatDivDesde(_, _, _, _, _)
\* one step of the long division: d is the digit of the quotient for the
\* partial dividend r
NatDivDigito(a, b, i, quociente, r, d) ==
    IF d = 0 THEN NatDivDesde(a, b, i - 1, <<0>> \o quociente, r)
    ELSE NatDivDesde(a, b, i - 1, <<d>> \o quociente, NatDif(r, NatVezes(b, d)))

NatDivParcial(a, b, i, quociente, r) ==
    NatDivDigito(a, b, i, quociente, r, DigitoQuociente(r, b, 14, 0))

\* long division, from digit i of a down to the lowest; resto < b
NatDivDesde(a, b, i, quociente, resto) ==
    IF i = 0 THEN [quociente |-> Aparar(quociente), resto |-> resto]
    ELSE NatDivParcial(a, b, i, quociente, Aparar(<<a[i]>> \o resto))

\* quotient and remainder of a by b, b not zero
NatDivMod(a, b) == NatDivDesde(a, b, Len(a), <<>>, <<>>)

Float(sinal, mant, exp) == [sinal |-> sinal, mant |-> mant, exp |-> exp]

FZero == Float(0, <<>>, 0)

\* the sum of (-1)^sx * mx * 2^e and (-1)^sy * my * 2^e; cmp compares mx
\* with my
DSomaAlinhada(sx, mx, sy, my, e, cmp) ==
    IF sx = sy THEN Float(sx, NatSoma(mx, my), e)
    ELSE IF cmp = 0 THEN FZero
    ELSE IF cmp > 0 THEN Float(sx, NatDif(mx, my), e)
    ELSE Float(sy, NatDif(my, mx), e)

DSomaDasMantissas(sx, mx, sy, my, e) ==
    DSomaAlinhada(sx, mx, sy, my, e, NatCmp(mx, my))

\* x + y with both mantissas brought to the exponent e, the lower of the two
DSomaNoExpoente(x, y, e) ==
    DSomaDasMantissas(x.sinal, NatEsquerda(x.mant, x.exp - e),
                      y.sinal, NatEsquerda(y.mant, y.exp - e), e)

\* the exact sum of the dyadic numbers x and y
DSoma(x, y) ==
    IF Len(x.mant) = 0 THEN y
    ELSE IF Len(y.mant) = 0 THEN x
    ELSE DSomaNoExpoente(x, y, Min(x.exp, y.exp))

DNeg(x) == IF Len(x.mant) = 0 THEN x ELSE Float(1 - x.sinal, x.mant, x.exp)

DAbs(x) == Float(0, x.mant, x.exp)

\* the exact product of the dyadic numbers x and y
DMul(x, y) ==
    IF Len(x.mant) = 0 \/ Len(y.mant) = 0 THEN FZero
    ELSE Float((x.sinal + y.sinal) % 2, NatProduto(x.mant, y.mant), x.exp + y.exp)

\* -1, 0 or 1 as d is negative, zero or positive
DSinal(d) == IF Len(d.mant) = 0 THEN 0 ELSE IF d.sinal = 1 THEN -1 ELSE 1

\* -1, 0 or 1 as x is less than, equal to or greater than y
DCmp(x, y) == DSinal(DSoma(x, DNeg(y)))

\* -1, 0 or 1 as the remainder of m by 2^k, where q is m \div 2^k, is less
\* than, equal to or greater than one half of 2^k
RestoContraMeio(m, q, k) ==
    NatCmp(NatDif(m, NatEsquerda(q, k)), NatEsquerda(<<1>>, k - 1))

\* q or q + 1: the nearer to the number that was cut, the even one in a tie
MantissaArredondada(q, meio) ==
    IF meio > 0 \/ (meio = 0 /\ q[1] % 2 = 1) THEN NatSoma(q, <<1>>) ELSE q

\* r * 2^exp, r of 53 bits, or of 54 when the rounding carried
FNormalizado(sinal, r, exp) ==
    IF NatBits(r) = 54 THEN Float(sinal, NatDireita(r, 1), exp + 1)
    ELSE Float(sinal, r, exp)

FCortado(x, corte, q) ==
    FNormalizado(x.sinal, MantissaArredondada(q, RestoContraMeio(x.mant, q, corte)),
                 x.exp + corte)

\* n is the number of bits of the mantissa of x
FDeBits(x, n) ==
    IF n = 0 THEN FZero
    ELSE IF n <= 53 THEN Float(x.sinal, NatEsquerda(x.mant, 53 - n), x.exp - (53 - n))
    ELSE FCortado(x, n - 53, NatDireita(x.mant, n - 53))

\* the float nearest to the dyadic number x, ties to even
FArredondar(x) == FDeBits(x, NatBits(x.mant))

\* float(n) for an int n
FInt(n) == FArredondar(Float(IF n < 0 THEN 1 ELSE 0, NatDe(IF n < 0 THEN 0 - n ELSE n), 0))

\* x + y, x - y and x * y
FSoma(x, y) == FArredondar(DSoma(x, y))
FSub(x, y) == FArredondar(DSoma(x, DNeg(y)))
FMul(x, y) == FArredondar(DMul(x, y))

\* x / y for y not zero: the first 56 or 57 bits of the quotient and one
\* more bit that says whether the division left a remainder
FDoQuociente(sinal, d, exp) ==
    FArredondar(Float(sinal,
                      NatSoma(NatVezes(d.quociente, 2),
                              NatDe(IF Len(d.resto) = 0 THEN 0 ELSE 1)),
                      exp))

FDiv(x, y) ==
    IF Len(x.mant) = 0 THEN FZero
    ELSE FDoQuociente((x.sinal + y.sinal) % 2,
                      NatDivMod(NatEsquerda(x.mant, 56), y.mant),
                      x.exp - y.exp - 57)

\* x > y and x < y
FMaior(x, y) == DCmp(x, y) > 0
FMenor(x, y) == DCmp(x, y) < 0

\* min(x, y) and max(x, y) of Python: the first argument unless the second
\* is smaller, or greater
FMin(x, y) == IF FMenor(y, x) THEN y ELSE x
FMax(x, y) == IF FMaior(y, x) THEN y ELSE x

\* the float of the decimal literal n / d, d a power of ten: Dec(28, 10) is
\* 2.8, the float nearest to 28 / 10
Dec(n, d) == FDiv(FInt(n), FInt(d))

\* n or n + 1: the nearer to the number that was cut, the even one in a tie
InteiroArredondado(n, meio) ==
    IF meio > 0 \/ (meio = 0 /\ n % 2 = 1) THEN n + 1 ELSE n

\* the integer nearest to m / 2^k, k > 0, where q is m \div 2^k
InteiroMaisProximo(m, q, k) ==
    InteiroArredondado(NatParaInt(q), RestoContraMeio(m, q, k))

\* the integer nearest to m * 2^exp
MilesimosDe(m, exp) ==
    IF exp >= 0 THEN NatParaInt(NatEsquerda(m, exp))
    ELSE InteiroMaisProximo(m, NatDireita(m, 0 - exp), 0 - exp)

\* round(x, 3) in thousandths: the integer nearest to the exact value of
\* x * 1000, ties to even
round3(x) ==
    IF x.sinal = 1 THEN 0 - MilesimosDe(NatVezes(x.mant, 1000), x.exp)
    ELSE MilesimosDe(NatVezes(x.mant, 1000), x.exp)

RECURSIVE SomaPesos(_, _, _, _)
\* score += peso for the patterns of tabela[k..] found in s, in the order of
\* the table
SomaPesos(tabela, s, k, score) ==
    IF k > Len(tabela) THEN score
    ELSE SomaPesos(tabela, s, k + 1,
                   IF re_search(tabela[k].re, s) THEN FSoma(score, tabela[k].peso)
                   ELSE score)

P(re, peso) == [re |-> re, peso |-> peso]

\* score += peso when the condition holds
Mais(score, cond, peso) == IF cond THEN FSoma(score, peso) ELSE score

(***************************************************************************)
(* AIService: the regex-weighted scorers and the fast context check of     *)
(* the orchestrator's local fallback.                                      *)
(***************************************************************************)
ProblemasRe == <<
    P(<<Lit("erro"), Ws, Dig(3)>>, Dec(30, 10)),
    P(<<Lit("n"), Cls({"a", "ã"}), Lit("o"), Ws, Lit("funciona")>>, Dec(28, 10)),
    P(<<Lit("fora"), Ws, Lit("do"), Ws, Lit("ar")>>, Dec(28, 10)),
    P(<<Lit("bug")>>, Dec(25, 10)), P(<<Lit("falha")>>, Dec(25, 10)), P(<<Lit("quebrado")>>, Dec(25, 10)),
    P(<<Lit("parou")>>, Dec(25, 10)), P(<<Lit("travando")>>, Dec(20, 10)), P(<<Lit("lento")>>, Dec(18, 10)),
    P(<<Lit("problema")>>, Dec(20, 10)) >>

SolicitacoesRe == <<
    P(<<Lit("preciso"), Ws, Lit("de")>>, Dec(20, 10)),
    P(<<Lit("necessito"), Ws, Lit("de")>>, Dec(20, 10)),
    P(<<Lit("como"), Ws, Lit("faço")>>, Dec(18, 10)),
    P(<<Lit("como"), Ws, Lit("configurar")>>, Dec(18, 10)),
    P(<<Lit("d"), Cls({"u", "ú"}), Lit("vida")>>, Dec(15, 10)),
    P(<<Lit("ajuda")>>, Dec(15, 10)),
    P(<<Lit("solicita"), Cls({"c", "ç"}), Cls({"a", "ã"}), Lit("o")>>, Dec(18, 10)),
    P(<<Lit("requisi"), Cls({"c", "ç"}), Cls({"a", "ã"}), Lit("o")>>, Dec(18, 10)) >>

\* the weights of lines 681 and 684
PesoPergunta == Dec(10, 10)
PesoPedido == Dec(12, 10)

\* score = 0, then the += of lines 666-684 in their order; the int 0 and the
\* float 0.0 are the same number FZero
_calcular_score_produtivo(texto_lower) ==
    Mais(Mais(SomaPesos(SolicitacoesRe, texto_lower, 1,
                        SomaPesos(ProblemasRe, texto_lower, 1, FZero)),
              Contem(texto_lower, "?"), PesoPergunta),
         ContemAlguma(texto_lower, <<"por favor", "urgente", "prioridade">>), PesoPedido)

AgradecimentosRe == <<
    P(<<Lit("muito"), Ws, Lit("obrigad"), Cls({"a", "o"})>>, Dec(30, 10)),
    P(<<Lit("agradeço"), Ws, Lit("pelo")>>, Dec(28, 10)),
    P(<<Lit("obrigad"), Cls({"a", "o"}), Ws, Lit("pelo")>>, Dec(25, 10)),
    P(<<Lit("agradecimento")>>, Dec(20, 10)) >>

ElogiosRe == <<
    P(<<Lit("parab"), Cls({"é", "e"}), Lit("ns")>>, Dec(30, 10)),
    P(<<Lit("excelente")>>, Dec(25, 10)), P(<<Lit("maravilhoso")>>, Dec(25, 10)),
    P(<<Lit("perfeito")>>, Dec(25, 10)),
    P(<<Lit("incr"), Cls({"i", "í"}), Lit("vel")>>, Dec(20, 10)),
    P(<<Lit("fant"), Cls({"a", "á"}), Lit("stico")>>, Dec(20, 10)) >>

FestasRe == <<
    P(<<Lit("feliz"), Ws, Lit("natal")>>, Dec(30, 10)),
    P(<<Lit("ano"), Ws, Lit("novo")>>, Dec(28, 10)),
    P(<<Lit("boas"), Ws, Lit("festas")>>, Dec(25, 10)),
    P(<<Lit("felicidades")>>, Dec(15, 10)),
    P(<<Lit("sa"), Cls({"u", "ú"}), Lit("de"), Ws, Lit("e"), Ws, Lit("paz")>>, Dec(15, 10)) >>

_calcular_score_improdutivo(texto_lower) ==
    SomaPesos(FestasRe, texto_lower, 1,
              SomaPesos(ElogiosRe, texto_lower, 1,
                        SomaPesos(AgradecimentosRe, texto_lower, 1, FZero)))

SociaisFortesRe == <<
    <<Lit("feliz"), Ws, Lit("natal")>>,
    <<Lit("ano"), Ws, Lit("novo")>>,
    <<Lit("boas"), Ws, Lit("festas")>>,
    <<Lit("parab"), Cls({"é", "e"}), Lit("ns"), Ws, Lit("pelo")>>,
    <<Lit("agradeço"), Ws, Lit("pelo")>>,
    <<Lit("muito"), Ws, Lit("obrigad"), Cls({"a", "o"})>>,
    <<Lit("desejo"), Tudo, Lit("feliz")>>,
    <<Lit("felicidades")>> >>

UrgentesRe == <<
    <<Lit("urgente")>>,
    <<Lit("cr"), Cls({"i", "í"}), Lit("tico")>>,
    <<Lit("emerg"), Cls({"ê", "e"}), Lit("ncia")>>,
    <<Lit("fora"), Ws, Lit("do"), Ws, Lit("ar")>>,
    <<Lit("n"), Cls({"a", "ã"}), Lit("o"), Ws, Lit("funciona")>>,
    <<Lit("erro"), Ws, DigMais>>,
    <<Lit("sistema"), Ws, Lit("parou")>>,
    <<Lit("prioridade")>>, <<Lit("imediato")>>, <<Lit("bloqueado")>> >>

\* a variant of _analisar_contexto_rapido that looks for an urgent pattern first
ContextoUrgentePrimeiro(texto_lower) ==
    IF \E k \in 1..Len(UrgentesRe) : re_search(UrgentesRe[k], texto_lower)
    THEN "urgente"
    ELSE IF \E k \in 1..Len(SociaisFortesRe) : re_search(SociaisFortesRe[k], texto_lower)
    THEN "social_forte"
    ELSE "neutro"

_analisar_contexto_rapido(texto_lower) ==
    IF \E k \in 1..Len(SociaisFortesRe) : re_search(SociaisFortesRe[k], texto_lower)
    THEN "social_forte"
    ELSE IF \E k \in 1..Len(UrgentesRe) : re_search(UrgentesRe[k], texto_lower)
    THEN "urgente"
    ELSE "neutro"

Res(categoria, confianca) == [categoria |-> categoria, confianca |-> confianca]

\* the literals of lines 648-653: 1.0, 0.95, 0.7 and 0.1
MargemMinima == Dec(10, 10)
TetoDoFallback == Dec(95, 100)
BaseDoFallback == Dec(7, 10)
PassoDoFallback == Dec(1, 10)

\* lines 646-655: category and confidence, in thousandths, from the two
\* scores
ResultadoDaDiferenca(diferenca) ==
    IF FMaior(diferenca, MargemMinima)
    THEN Res("Produtivo",
             round3(FMin(TetoDoFallback,
                         FSoma(BaseDoFallback, FMul(diferenca, PassoDoFallback)))))
    ELSE IF FMenor(diferenca, DNeg(MargemMinima))
    THEN Res("Improdutivo",
             round3(FMin(TetoDoFallback,
                         FSoma(BaseDoFallback, FMul(DAbs(diferenca), PassoDoFallback)))))
    ELSE Res("Produtivo", 650)

ClassificarPorDiferenca(score_produtivo, score_improdutivo) ==
    ResultadoDaDiferenca(FSub(score_produtivo, score_improdutivo))

classificar_localmente_aprimorado(texto) ==
    LET texto_lower == lower(texto)
        contexto == _analisar_contexto_rapido(texto_lower)
    IN  IF contexto = "social_forte" THEN Res("Improdutivo", 920)
        ELSE IF contexto = "urgente" THEN Res("Produtivo", 880)
        ELSE ClassificarPorDiferenca(_calcular_score_produtivo(texto_lower),
                                     _calcular_score_improdutivo(texto_lower))

(***************************************************************************)
(* AIService.classificar_com_huggingface: one model's response.            *)
(* A response is [status, corpo]; status 0 stands for requests.post        *)
(* raising (timeout, connection error).  A body is a JSON object: a        *)
(* record with or without the fields labels and scores.                    *)
(***************************************************************************)
modelos == << "facebook/bart-large-mnli",
              "joeddav/xlm-roberta-large-xnli",
              "typeform/distilbert-base-uncased-mnli" >>

Falha == [ok |-> FALSE, categoria |-> "", confianca |-> 0]
Sucesso(categoria, confianca) == [ok |-> TRUE, categoria |-> categoria, confianca |-> confianca]

RECURSIVE MaxDe(_, _)
\* max(scores[k..])
MaxDe(scores, k) ==
    IF k = Len(scores) THEN scores[k] ELSE Max(scores[k], MaxDe(scores, k + 1))

\* scores.index(max(scores))
IndiceDoMaximo(scores) ==
    CHOOSE i \in 1..Len(scores) :
        /\ scores[i] = MaxDe(scores, 1)
        /\ \A j \in 1..(i - 1) : scores[j] # MaxDe(scores, 1)

\* lines 88-91: round(confianca * 0.95, 3) in thousandths, for the score
\* confianca / 1000; round() rounds the float product
FatorDistilbert == Dec(95, 100)
ProdutoArredondado(confianca) == round3(FMul(Dec(confianca, 1000), FatorDistilbert))

\* ProdutoArredondado of the confidences the inference service of the
\* environment answers with, computed once
TabelaDistilbert == { <<c, ProdutoArredondado(c)>> : c \in {900, 1000, 1200} }

ConfiancaDistilbert(confianca) ==
    IF \E p \in TabelaDistilbert : p[1] = confianca
    THEN (CHOOSE p \in TabelaDistilbert : p[1] = confianca)[2]
    ELSE ProdutoArredondado(confianca)

\* the body of the try block once the response is in hand (lines 77-91):
\* Falha when it raises or falls through without a return
InterpretarResposta(modelo, resp) ==
    IF resp.status = 0 \/ resp.status >= 400 THEN Falha
    ELSE IF ~("labels" \in DOMAIN resp.corpo /\ "scores" \in DOMAIN resp.corpo) THEN Falha
    ELSE IF Len(resp.corpo.scores) = 0 THEN Falha
    ELSE LET best_idx == IndiceDoMaximo(resp.corpo.scores)
         IN  IF best_idx > Len(resp.corpo.labels) THEN Falha
             ELSE LET categoria == resp.corpo.labels[best_idx]
                      confianca == resp.corpo.scores[best_idx]
                      categoria_final == IF categoria = "produtivo" THEN "Produtivo"
                                         ELSE "Improdutivo"
                  IN  Sucesso(categoria_final,
                              IF Contem(modelo, "distilbert")
                              THEN ConfiancaDistilbert(confianca)
                              ELSE confianca)

(***************************************************************************)
(* AIService.classificar_email and _registrar_classificacao.               *)
(***************************************************************************)
\* a variant of TextoCurto that tests only "not texto"
TextoVazio(texto) == Len(texto) = 0

\* not texto or len(texto.strip()) < 10
TextoCurto(texto) == Len(texto) = 0 \/ Len(strip(texto)) < 10

ResultadoPadrao == Res("Improdutivo", 600)

\* a variant of MetodoRemoto: the tag of the other tier
MetodoLocal == "local"

\* the tag classificar_email records a remote success under
MetodoRemoto == "huggingface"

\* classificar_localmente_aprimorado of the texts that reach a classifier,
\* computed once
TabelaLocal ==
    { <<t, classificar_localmente_aprimorado(t)>> :
        t \in { " Tenho uma duvida simples ", "Feliz Natal a todos",
                "Tenho uma duvida simples", "!!!!!!!!!!!!",
                "[ERRO: Biblioteca PyPDF2 não instalada. Use: pip install PyPDF2]" } }

\* a variant of ResultadoFallback that answers the default of the short texts
\* instead of running the local classifier
ResultadoFixo(texto) == ResultadoPadrao

\* the return of classificar_email once the remote tier has raised (line 612)
ResultadoFallback(texto) ==
    IF \E p \in TabelaLocal : p[1] = texto
    THEN (CHOOSE p \in TabelaLocal : p[1] = texto)[2]
    ELSE classificar_localmente_aprimorado(texto)

\* a variant of _registrar_classificacao that never discards an entry
_registrar_sem_descarte(history, timestamp, metodo, categoria, confianca) ==
    Append(history, [timestamp |-> timestamp, metodo |-> metodo,
                     categoria |-> categoria, confianca |-> confianca])

_registrar_classificacao(history, timestamp, metodo, categoria, confianca) ==
    LET h == Append(history, [timestamp |-> timestamp, metodo |-> metodo,
                              categoria |-> categoria, confianca |-> confianca])
    IN  IF Len(h) > 100 THEN Tail(h) ELSE h

(***************************************************************************)
(* AIService.gerar_resposta_inteligente.  hash(s) is fixed for one process *)
(* and differs between processes (string hashing is salted): any string    *)
(* can have any hash, and the hashes of two strings are independent.  The  *)
(* code uses hash(s) only modulo the length of a reply bank, 3 or 4, and   *)
(* the two residues of a hash are independent as well.  A salt is what is  *)
(* known of the process's hash: a function from pairs <<s, n>> to          *)
(* hash(s) % n.  A reply is the template with the argument str.format      *)
(* received.                                                               *)
(* The strings the engine only hands back (replies, exception messages,    *)
(* labels) are written as Python's ascii() writes them, \xe1 for the       *)
(* letter a with an acute accent and \U0001f4cb for a pictograph; the code *)
(* never measures or searches them.  The texts extrair_texto_pdf returns   *)
(* are processed as the text of an email: the code measures, summarises    *)
(* and classifies them, so they are written with their own letters, one    *)
(* character each.  The texts callers pass are ASCII texts.                *)
(***************************************************************************)
\* hash(s) % n in the process of salt
HashMod(s, n, salt) == salt[<<s, n>>]

Resposta(texto, ticket) == [texto |-> texto, ticket |-> ticket]

\* template.format(ticket_id): the id is used only where the template has {}
Format(template, ticket_id) ==
    Resposta(template, IF Contem(template, "{}") THEN ticket_id ELSE 0)

RespostasProdutivas == <<
    "\\u2705 **Solicita\\xe7\\xe3o recebida** - Confirmamos o recebimento de sua requisi\\xe7\\xe3o. Ticket #{} criado com sucesso.",
    "\\U0001f4cb **Em an\\xe1lise** - Sua solicita\\xe7\\xe3o est\\xe1 sendo processada por nossa equipe. Retornaremos em at\\xe9 2 horas \\xfateis.",
    "\\U0001f468\\u200d\\U0001f4bb **Em atendimento** - J\\xe1 iniciamos a an\\xe1lise do seu caso. Voc\\xea receber\\xe1 atualiza\\xe7\\xf5es em breve." >>

_gerar_resposta_produtiva(texto_lower, confianca, salt, ticket_id) ==
    IF confianca > 800 /\ ContemAlguma(texto_lower, <<"erro", "bug", "não funciona", "fora do ar">>)
    THEN Resposta("\\U0001f527 **Problema identificado** - Nossa equipe t\\xe9cnica j\\xe1 est\\xe1 analisando esta falha. Voc\\xea receber\\xe1 uma atualiza\\xe7\\xe3o em at\\xe9 1 hora \\xfatil.", 0)
    ELSE IF confianca > 800 /\ ContemAlguma(texto_lower, <<"dúvida", "como fazer", "configurar">>)
    THEN Resposta("\\U0001f4a1 **Consulta recebida** - Nossa equipe especializada est\\xe1 preparando um guia detalhado para sua d\\xfavida. Retornaremos em breve.", 0)
    ELSE IF confianca > 800 /\ ContemAlguma(texto_lower, <<"urgente", "prioridade", "crítico">>)
    THEN Resposta("\\U0001f6a8 **Caso priorit\\xe1rio** - Sua solicita\\xe7\\xe3o foi marcada como urgente. Atualiza\\xe7\\xf5es em at\\xe9 30 minutos.", 0)
    ELSE Format(RespostasProdutivas[HashMod(texto_lower, Len(RespostasProdutivas), salt) + 1],
                ticket_id)

RespostasImprodutivas == <<
    "\\U0001f48c **Mensagem recebida** - Agradecemos seu contato! Desejamos um excelente dia.",
    "\\U0001f64f **Agradecemos** - Sua mensagem foi recebida com alegria. Estamos sempre \\xe0 disposi\\xe7\\xe3o!",
    "\\U0001f60a **Obrigado!** - Valorizamos muito sua intera\\xe7\\xe3o conosco. Tenha um \\xf3timo dia!" >>

_gerar_resposta_improdutiva(texto_lower, confianca, salt) ==
    IF confianca > 850 /\ ContemAlguma(texto_lower, <<"natal", "ano novo", "festas">>)
    THEN Resposta("\\U0001f384 **Agradecemos as felicita\\xe7\\xf5es!** Retribu\\xedmos os votos de um feliz natal e um ano novo repleto de conquistas para voc\\xea e toda equipe!", 0)
    ELSE IF confianca > 850 /\ ContemAlguma(texto_lower, <<"parabéns", "elogio", "excelente">>)
    THEN Resposta("\\u2b50 **Muito obrigado pelo reconhecimento!** Sua satisfa\\xe7\\xe3o \\xe9 nossa maior motiva\\xe7\\xe3o para continuar evoluindo.", 0)
    ELSE Resposta(RespostasImprodutivas[HashMod(texto_lower, Len(RespostasImprodutivas), salt) + 1], 0)

gerar_resposta_inteligente(categoria, texto_original, confianca, salt, ticket_id) ==
    IF categoria = "Produtivo"
    THEN _gerar_resposta_produtiva(lower(texto_original), confianca, salt, ticket_id)
    ELSE _gerar_resposta_improdutiva(lower(texto_original), confianca, salt)

(***************************************************************************)
(* EmailRequest, EmailResponse and the pure parts of EmailService.         *)
(* An exception is [classe, msg, n]: n is the number its message formats.  *)
(***************************************************************************)
Excecao(classe, msg, n) == [classe |-> classe, msg |-> msg, n |-> n]
SemExcecao == Excecao("", "", 0)

\* EmailRequest.__post_init__: the exception it raises, or SemExcecao
EmailRequest_post_init(texto) ==
    IF Len(texto) = 0 \/ Len(strip(texto)) = 0
    THEN Excecao("ValueError", "Texto do email n\\xe3o pode estar vazio", 0)
    ELSE IF Len(strip(texto)) < 10
    THEN Excecao("ValueError", "Texto do email muito curto (m\\xednimo 10 caracteres)", 0)
    ELSE SemExcecao

\* sum(1 for char in texto_limpo if char.isalnum() or char.isspace())
caracteres_validos(texto_limpo) ==
    Cardinality({i \in 1..Len(texto_limpo) :
                    EhAlnum(Chr(texto_limpo, i)) \/ EhEspaco(Chr(texto_limpo, i))})

\* EmailService._validar_email_request: the exception it raises, or SemExcecao
_validar_email_request(texto) ==
    IF Len(texto) = 0
    THEN Excecao("ValueError", "Requisi\\xe7\\xe3o de email inv\\xe1lida: texto ausente", 0)
    ELSE IF Len(strip(texto)) < 10
    THEN Excecao("ValueError", "Texto do email muito curto: {} caracteres (m\\xednimo: 10)",
                 Len(strip(texto)))
    ELSE IF Len(strip(texto)) > 15000
    THEN Excecao("ValueError", "Texto do email muito longo: {} caracteres (m\\xe1ximo: 15.000)",
                 Len(strip(texto)))
    ELSE IF caracteres_validos(strip(texto)) < 5
    THEN Excecao("ValueError", "Texto do email cont\\xe9m poucos caracteres v\\xe1lidos", 0)
    ELSE SemExcecao

\* s.split(sep)[0]
PrimeiraParte(s, sep) ==
    IF Contem(s, sep)
    THEN LET i == CHOOSE i \in 1..(Len(s) - Len(sep) + 1) :
                    /\ SubSeq(s, i, i + Len(sep) - 1) = sep
                    /\ \A j \in 1..(i - 1) : SubSeq(s, j, j + Len(sep) - 1) # sep
         IN  SubSeq(s, 1, i - 1)
    ELSE s

RECURSIVE Split(_, _)
\* s.split(sep)
Split(s, sep) ==
    IF Contem(s, sep)
    THEN LET cabeca == PrimeiraParte(s, sep)
         IN  <<cabeca>> \o Split(SubSeq(s, Len(cabeca) + Len(sep) + 1, Len(s)), sep)
    ELSE <<s>>

RECURSIVE JuntarFrases(_, _, _, _)
\* the loop over frases: append frase + '. ' while the result stays short
JuntarFrases(frases, k, texto_resumido, max_length) ==
    IF k > Len(frases) THEN texto_resumido
    ELSE IF Len(texto_resumido) + Len(frases[k]) < max_length - 3
    THEN JuntarFrases(frases, k + 1, texto_resumido \o frases[k] \o ". ", max_length)
    ELSE texto_resumido

RECURSIVE RStripChars(_, _)
\* s.rstrip(chars)
RStripChars(s, chars) ==
    IF Len(s) > 0 /\ Chr(s, Len(s)) \in chars
    THEN RStripChars(SubSeq(s, 1, Len(s) - 1), chars)
    ELSE s

\* s.rsplit(' ', 1)[0]
AntesDoUltimoEspaco(s) ==
    IF Contem(s, " ")
    THEN LET i == CHOOSE i \in 1..Len(s) :
                    /\ Chr(s, i) = " "
                    /\ \A j \in (i + 1)..Len(s) : Chr(s, j) # " "
         IN  SubSeq(s, 1, i - 1)
    ELSE s

_processar_e_resumir_texto(texto, max_length) ==
    IF Len(texto) <= max_length THEN texto
    ELSE IF Len(PrimeiraParte(texto, "\n\n")) <= max_length
    THEN PrimeiraParte(texto, "\n\n")
    ELSE LET juntado == strip(JuntarFrases(Split(texto, ". "), 1, "", max_length))
             texto_resumido ==
                 IF Len(juntado) < Len(texto)
                 THEN RStripChars(juntado, {".", ",", "!", "?"}) \o "..."
                 ELSE juntado
         IN  IF Len(texto_resumido) > 0 THEN texto_resumido
             ELSE AntesDoUltimoEspaco(Prefixo(texto, max_length)) \o "..."

_atualizar_metricas(m, categoria) ==
    [ total_emails_processados |-> m.total_emails_processados + 1,
      emails_produtivos |-> m.emails_produtivos + (IF categoria = "Produtivo" THEN 1 ELSE 0),
      emails_improdutivos |-> m.emails_improdutivos + (IF categoria = "Produtivo" THEN 0 ELSE 1) ]

\* EmailResponse._get_nivel_confianca
_get_nivel_confianca(confianca) ==
    IF confianca >= 900 THEN "Muito Alta"
    ELSE IF confianca >= 700 THEN "Alta"
    ELSE IF confianca >= 500 THEN "M\\xe9dia"
    ELSE "Baixa"

\* a variant of ConfiancaInvalida that accepts every confidence
ConfiancaNuncaInvalida(confianca) == FALSE

\* EmailResponse.__post_init__: not 0 <= confianca <= 1
ConfiancaInvalida(confianca) == ~(0 <= confianca /\ confianca <= 1000)

\* the fields of an EmailResponse (and of its to_dict) that do not depend on
\* the wall clock
EmailResponse(categoria, resposta_sugerida, texto_processado, confianca) ==
    [ categoria |-> categoria,
      resposta_sugerida |-> resposta_sugerida,
      texto_processado |-> texto_processado,
      confianca |-> confianca,
      modelo_utilizado |-> "HuggingFace Transformers + An\\xe1lise Contextual",
      nivel_confianca |-> _get_nivel_confianca(confianca),
      erro |-> SemExcecao ]

\* a variant of RegistroDeErro that echoes the whole input
RegistroSemTruncar(e, email_texto) ==
    [ categoria |-> "ERRO",
      resposta_sugerida |-> Resposta("N\\xe3o foi poss\\xedvel processar este email.", 0),
      texto_processado |-> email_texto,
      confianca |-> 0,
      modelo_utilizado |-> "",
      nivel_confianca |-> "",
      erro |-> e ]

\* the record processar_lote appends when an item raises
RegistroDeErro(e, email_texto) ==
    [ categoria |-> "ERRO",
      resposta_sugerida |-> Resposta("N\\xe3o foi poss\\xedvel processar este email.", 0),
      texto_processado |-> IF Len(email_texto) > 150
                           THEN Prefixo(email_texto, 150) \o "..."
                           ELSE email_texto,
      confianca |-> 0,
      modelo_utilizado |-> "",
      nivel_confianca |-> "",
      erro |-> e ]

Retorno(tipo, valor) == [tipo |-> tipo, valor |-> valor]
SemRetorno == Retorno("nenhum", <<>>)

\* the members of CategoriaEmail, in the order of their definition
CategoriaEmail ==
    << [name |-> "PRODUTIVO", value |-> "Produtivo"],
       [name |-> "IMPRODUTIVO", value |-> "Improdutivo"] >>

\* a variant of from_string that compares the trimmed value as it is written
from_string_exato(value) ==
    LET value_strip == strip(value)
        iguais == {k \in 1..Len(CategoriaEmail) : CategoriaEmail[k].value = value_strip}
    IN  IF iguais # {}
        THEN Retorno("membro",
                     CategoriaEmail[CHOOSE k \in iguais : \A j \in iguais : k <= j].name)
        ELSE Retorno("excecao",
                     Excecao("ValueError", "Categoria inv\\xe1lida: " \o value, 0))

\* CategoriaEmail.from_string: the first member whose value, in lower case,
\* is value.lower().strip(), or the ValueError of line 17
from_string(value) ==
    LET value_lower == strip(lower(value))
        iguais == {k \in 1..Len(CategoriaEmail) :
                      lower(CategoriaEmail[k].value) = value_lower}
    IN  IF iguais # {}
        THEN Retorno("membro",
                     CategoriaEmail[CHOOSE k \in iguais : \A j \in iguais : k <= j].name)
        ELSE Retorno("excecao",
                     Excecao("ValueError", "Categoria inv\\xe1lida: " \o value, 0))

\* processar_email from the reply generation to its return (lines 36-59):
\* the metrics it leaves and what it returns or raises
processar_email_resto(texto, res, m, salt, ticket_id) ==
    LET resposta_sugerida ==
            gerar_resposta_inteligente(res.categoria, texto, res.confianca, salt, ticket_id)
        texto_processado == _processar_e_resumir_texto(texto, 200)
    IN  [ metrics |-> _atualizar_metricas(m, res.categoria),
          ret |-> IF ConfiancaInvalida(res.confianca)
                  THEN Retorno("excecao",
                               Excecao("ValueError",
                                       "Confian\\xe7a deve estar entre 0 e 1, recebido: {}",
                                       res.confianca))
                  ELSE Retorno("EmailResponse",
                               EmailResponse(res.categoria, resposta_sugerida,
                                             texto_processado, res.confianca)) ]

\* what processar_lote appends for an item whose processar_email ended in ret
RegistroDoItem(ret_item, email_texto) ==
    IF ret_item.tipo = "excecao" THEN RegistroDeErro(ret_item.valor, email_texto)
    ELSE ret_item.valor

(***************************************************************************)
(* AIService.preprocessar_texto_avancado: lower-casing, punctuation to     *)
(* spaces, tokens, stop words out, Porter stems, joined by one space.      *)
(* stopwords.words('portuguese') are the stop words of NLTK's corpus;      *)
(* PorterStemmer().stem is NLTK's Porter stemmer in its default mode       *)
(* (NLTK_EXTENSIONS).  Tokens are those of line 314, str.split, the        *)
(* branch taken when word_tokenize raises (NLTK's tokenizer data for       *)
(* Portuguese is not installed).  Where word_tokenize answers, the text    *)
(* it is given holds no punctuation any more, and it gives the tokens of   *)
(* str.split except for the English contractions NLTK's tokenizer cuts in  *)
(* two (cannot, gonna, gotta, gimme, lemme, wanna), which no text of the   *)
(* environment holds.                                                      *)
(***************************************************************************)
stop_words_pt ==
    { "de", "a", "o", "que", "e", "é", "do", "da", "em", "um",
      "para", "com", "não", "uma", "os", "no", "se", "na", "por", "mais",
      "as", "dos", "como", "mas", "ao", "ele", "das", "à", "seu", "sua",
      "ou", "quando", "muito", "nos", "já", "eu", "também", "só", "pelo", "pela",
      "até", "isso", "ela", "entre", "depois", "sem", "mesmo", "aos", "seus", "quem",
      "nas", "me", "esse", "eles", "você", "essa", "num", "nem", "suas", "meu",
      "às", "minha", "numa", "pelos", "elas", "qual", "nós", "lhe", "deles", "essas",
      "esses", "pelas", "este", "dele", "tu", "te", "vocês", "vos", "lhes", "meus",
      "minhas", "teu", "tua", "teus", "tuas", "nosso", "nossa", "nossos", "nossas", "dela",
      "delas", "esta", "estes", "estas", "aquele", "aquela", "aqueles", "aquelas", "isto", "aquilo",
      "estou", "está", "estamos", "estão", "estive", "esteve", "estivemos", "estiveram", "estava", "estávamos",
      "estavam", "estivera", "estivéramos", "esteja", "estejamos", "estejam", "estivesse", "estivéssemos", "estivessem", "estiver",
      "estivermos", "estiverem", "hei", "há", "havemos", "hão", "houve", "houvemos", "houveram", "houvera",
      "houvéramos", "haja", "hajamos", "hajam", "houvesse", "houvéssemos", "houvessem", "houver", "houvermos", "houverem",
      "houverei", "houverá", "houveremos", "houverão", "houveria", "houveríamos", "houveriam", "sou", "somos", "são",
      "era", "éramos", "eram", "fui", "foi", "fomos", "foram", "fora", "fôramos", "seja",
      "sejamos", "sejam", "fosse", "fôssemos", "fossem", "for", "formos", "forem", "serei", "será",
      "seremos", "serão", "seria", "seríamos", "seriam", "tenho", "tem", "temos", "tém", "tinha",
      "tínhamos", "tinham", "tive", "teve", "tivemos", "tiveram", "tivera", "tivéramos", "tenha", "tenhamos",
      "tenham", "tivesse", "tivéssemos", "tivessem", "tiver", "tivermos", "tiverem", "terei", "terá", "teremos",
      "terão", "teria", "teríamos", "teriam" }

\* the characters the substitution of line 309 keeps
EhPalavra(c) == EhAlnum(c) \/ c = "_" \/ EhEspaco(c)

RECURSIVE SubstituirPontuacao(_, _)
\* re.sub(r'[^\w\s...]', ' ', s), from position i on
SubstituirPontuacao(s, i) ==
    IF i > Len(s) THEN ""
    ELSE (IF EhPalavra(Chr(s, i)) THEN Chr(s, i) ELSE " ") \o SubstituirPontuacao(s, i + 1)

RECURSIVE SplitWs(_)
\* s.split()
SplitWs(s) ==
    LET t == strip(s)
    IN  IF t = "" THEN <<>>
        ELSE IF \E i \in 1..Len(t) : EhEspaco(Chr(t, i))
        THEN LET fim == CHOOSE i \in 1..Len(t) :
                            /\ EhEspaco(Chr(t, i))
                            /\ \A j \in 1..(i - 1) : ~EhEspaco(Chr(t, j))
             IN  <<SubSeq(t, 1, fim - 1)>> \o SplitWs(SubSeq(t, fim + 1, Len(t)))
        ELSE <<t>>

\* s.endswith(sufixo)
EndsWith(s, sufixo) ==
    Len(s) >= Len(sufixo) /\ SubSeq(s, Len(s) - Len(sufixo) + 1, Len(s)) = sufixo

\* s[:-n] for n >= 0: the slice ends n characters before the end, and s[:-0]
\* is s[:0], the empty string
SemFim(s, n) == IF n = 0 THEN "" ELSE SubSeq(s, 1, Len(s) - n)

\* PorterStemmer._replace_suffix: the word ends with suffix
_replace_suffix(word, suffix, replacement) ==
    IF suffix = "" THEN word \o replacement
    ELSE SemFim(word, Len(suffix)) \o replacement

vowels == {"a", "e", "i", "o", "u"}

RECURSIVE _is_consonant(_, _)
_is_consonant(word, i) ==
    IF Chr(word, i) \in vowels THEN FALSE
    ELSE IF Chr(word, i) = "y"
    THEN (IF i = 1 THEN TRUE ELSE ~_is_consonant(word, i - 1))
    ELSE TRUE

\* the number of vowel-consonant sequences of stem
_measure(stem) ==
    Cardinality({i \in 1..(Len(stem) - 1) :
                    ~_is_consonant(stem, i) /\ _is_consonant(stem, i + 1)})

_contains_vowel(stem) == \E i \in 1..Len(stem) : ~_is_consonant(stem, i)

_ends_double_consonant(word) ==
    /\ Len(word) >= 2
    /\ Chr(word, Len(word)) = Chr(word, Len(word) - 1)
    /\ _is_consonant(word, Len(word))

_ends_cvc(word) ==
    \/ /\ Len(word) >= 3
       /\ _is_consonant(word, Len(word) - 2)
       /\ ~_is_consonant(word, Len(word) - 1)
       /\ _is_consonant(word, Len(word))
       /\ Chr(word, Len(word)) \notin {"w", "x", "y"}
    \/ /\ Len(word) = 2
       /\ ~_is_consonant(word, 1)
       /\ _is_consonant(word, 2)

\* a rule of the stemmer: suffix, replacement, and the name of the condition
\* on the stem
Regra(suffix, replacement, condition) ==
    [suffix |-> suffix, replacement |-> replacement, condition |-> condition]

\* the conditions of the rules; word is the word the rule list is applied to
Condicao(condition, stem, word) ==
    CASE condition = "" -> TRUE
      [] condition = "m>0" -> _measure(stem) > 0
      [] condition = "m>1" -> _measure(stem) > 1
      [] condition = "m>1 st" ->
            _measure(stem) > 1 /\ Chr(stem, Len(stem)) \in {"s", "t"}
      [] condition = "m=1 cvc" -> _measure(stem) = 1 /\ _ends_cvc(stem)
      [] condition = "not lsz" -> Chr(word, Len(word)) \notin {"l", "s", "z"}
      [] condition = "consonant y" -> Len(stem) > 1 /\ _is_consonant(stem, Len(stem))
      [] condition = "logi" -> _measure(SemFim(word, 3)) > 0
      [] condition = "ll" -> _measure(SemFim(word, 1)) > 1

RECURSIVE _apply_rule_list(_, _, _)
\* the first rule of rules[k..] whose suffix ends the word decides; the
\* suffix "*d" stands for a double consonant, replaced by one
_apply_rule_list(word, rules, k) ==
    IF k > Len(rules) THEN word
    ELSE LET rule == rules[k] IN
         IF rule.suffix = "*d" /\ _ends_double_consonant(word)
         THEN (IF Condicao(rule.condition, SemFim(word, 2), word)
               THEN SemFim(word, 2) \o Chr(word, Len(word))
               ELSE word)
         ELSE IF rule.suffix # "*d" /\ EndsWith(word, rule.suffix)
         THEN (IF Condicao(rule.condition, _replace_suffix(word, rule.suffix, ""), word)
               THEN _replace_suffix(word, rule.suffix, "") \o rule.replacement
               ELSE word)
         ELSE _apply_rule_list(word, rules, k + 1)

_step1a(word) ==
    IF EndsWith(word, "ies") /\ Len(word) = 4 THEN SemFim(word, 3) \o "ie"
    ELSE _apply_rule_list(word, << Regra("sses", "ss", ""), Regra("ies", "i", ""),
                                   Regra("ss", "ss", ""), Regra("s", "", "") >>, 1)

_step1b(word) ==
    IF EndsWith(word, "ied")
    THEN SemFim(word, 3) \o (IF Len(word) = 4 THEN "ie" ELSE "i")
    ELSE IF EndsWith(word, "eed")
    THEN (IF _measure(SemFim(word, 3)) > 0 THEN SemFim(word, 3) \o "ee" ELSE word)
    ELSE LET intermediate_stem ==
                 IF EndsWith(word, "ed") /\ _contains_vowel(SemFim(word, 2))
                 THEN SemFim(word, 2)
                 ELSE IF EndsWith(word, "ing") /\ _contains_vowel(SemFim(word, 3))
                 THEN SemFim(word, 3)
                 ELSE word
             rule_2_or_3_succeeded ==
                 \/ EndsWith(word, "ed") /\ _contains_vowel(SemFim(word, 2))
                 \/ EndsWith(word, "ing") /\ _contains_vowel(SemFim(word, 3))
         IN  IF ~rule_2_or_3_succeeded THEN word
             ELSE _apply_rule_list(intermediate_stem,
                      << Regra("at", "ate", ""), Regra("bl", "ble", ""), Regra("iz", "ize", ""),
                         Regra("*d", "", "not lsz"), Regra("", "e", "m=1 cvc") >>, 1)

_step1c(word) == _apply_rule_list(word, << Regra("y", "i", "consonant y") >>, 1)

RegrasStep2 ==
    << Regra("ational", "ate", "m>0"), Regra("tional", "tion", "m>0"),
       Regra("enci", "ence", "m>0"), Regra("anci", "ance", "m>0"),
       Regra("izer", "ize", "m>0"), Regra("bli", "ble", "m>0"),
       Regra("alli", "al", "m>0"), Regra("entli", "ent", "m>0"),
       Regra("eli", "e", "m>0"), Regra("ousli", "ous", "m>0"),
       Regra("ization", "ize", "m>0"), Regra("ation", "ate", "m>0"),
       Regra("ator", "ate", "m>0"), Regra("alism", "al", "m>0"),
       Regra("iveness", "ive", "m>0"), Regra("fulness", "ful", "m>0"),
       Regra("ousness", "ous", "m>0"), Regra("aliti", "al", "m>0"),
       Regra("iviti", "ive", "m>0"), Regra("biliti", "ble", "m>0"),
       Regra("fulli", "ful", "m>0"), Regra("logi", "log", "logi") >>

RECURSIVE _step2(_)
_step2(word) ==
    IF EndsWith(word, "alli") /\ _measure(SemFim(word, 4)) > 0
    THEN _step2(SemFim(word, 4) \o "al")
    ELSE _apply_rule_list(word, RegrasStep2, 1)

_step3(word) ==
    _apply_rule_list(word,
        << Regra("icate", "ic", "m>0"), Regra("ative", "", "m>0"), Regra("alize", "al", "m>0"),
           Regra("iciti", "ic", "m>0"), Regra("ical", "ic", "m>0"), Regra("ful", "", "m>0"),
           Regra("ness", "", "m>0") >>, 1)

_step4(word) ==
    _apply_rule_list(word,
        << Regra("al", "", "m>1"), Regra("ance", "", "m>1"), Regra("ence", "", "m>1"),
           Regra("er", "", "m>1"), Regra("ic", "", "m>1"), Regra("able", "", "m>1"),
           Regra("ible", "", "m>1"), Regra("ant", "", "m>1"), Regra("ement", "", "m>1"),
           Regra("ment", "", "m>1"), Regra("ent", "", "m>1"), Regra("ion", "", "m>1 st"),
           Regra("ou", "", "m>1"), Regra("ism", "", "m>1"), Regra("ate", "", "m>1"),
           Regra("iti", "", "m>1"), Regra("ous", "", "m>1"), Regra("ive", "", "m>1"),
           Regra("ize", "", "m>1") >>, 1)

_step5a(word) ==
    IF EndsWith(word, "e")
    THEN LET stem == SemFim(word, 1)
         IN  IF _measure(stem) > 1 THEN stem
             ELSE IF _measure(stem) = 1 /\ ~_ends_cvc(stem) THEN stem
             ELSE word
    ELSE word

_step5b(word) == _apply_rule_list(word, << Regra("ll", "l", "ll") >>, 1)

\* the irregular forms of the stemmer
pool ==
    { <<"sky", "sky">>, <<"skies", "sky">>, <<"dying", "die">>, <<"lying", "lie">>,
      <<"tying", "tie">>, <<"news", "news">>, <<"innings", "inning">>, <<"inning", "inning">>,
      <<"outings", "outing">>, <<"outing", "outing">>, <<"cannings", "canning">>,
      <<"canning", "canning">>, <<"howe", "howe">>, <<"proceed", "proceed">>,
      <<"exceed", "exceed">>, <<"succeed", "succeed">> }

\* PorterStemmer.stem of a lower-case word
stem(word) ==
    IF \E p \in pool : p[1] = word THEN (CHOOSE p \in pool : p[1] = word)[2]
    ELSE IF Len(word) <= 2 THEN word
    ELSE _step5b(_step5a(_step4(_step3(_step2(_step1c(_step1b(_step1a(word))))))))

RECURSIVE JuntarTokens(_, _)
\* lines 316-322: the stems of the tokens of tokens[k..] that are no stop
\* words, joined by single spaces
JuntarTokens(tokens, k) ==
    IF k > Len(tokens) THEN ""
    ELSE LET resto == JuntarTokens(tokens, k + 1)
             token == IF tokens[k] \in stop_words_pt THEN "" ELSE stem(tokens[k])
         IN  IF token = "" THEN resto
             ELSE IF resto = "" THEN token
             ELSE token \o " " \o resto

preprocessar_texto_avancado(texto) ==
    IF Len(texto) = 0 THEN ""
    ELSE JuntarTokens(SplitWs(SubstituirPontuacao(lower(texto), 1)), 1)

(***************************************************************************)
(* AIService.classificar_localmente.  A confidence that is still a         *)
(* quotient is [num, den]: num / den thousandths.                          *)
(***************************************************************************)
padroes_sociais_fortes ==
    << "parabenizar", "parabéns", "excelente", "maravilhoso", "perfeito",
       "feliz natal", "ano novo", "boas festas", "agradeço pelo", "obrigado pelo",
       "gostaria de parabenizar", "quero parabenizar", "muito obrigado", "muito obrigada" >>

padroes_urgentes ==
    << "urgente", "crítico", "emergência", "fora do ar", "não funciona",
       "erro 500", "erro 503", "sistema parou", "prioridade", "imediato" >>

_analisar_contexto_geral(texto_lower) ==
    IF ContemAlguma(texto_lower, padroes_sociais_fortes) THEN "social_forte"
    ELSE IF ContemAlguma(texto_lower, padroes_urgentes) THEN "urgente"
    ELSE "neutro"

\* a variant of palavras_solicitacao without 'ajuda'
SolicitacaoSemAjuda == << "preciso", "necessito", "problema", "erro", "bug", "falha" >>

palavras_solicitacao == << "preciso", "necessito", "ajuda", "problema", "erro", "bug", "falha" >>

\* a variant of _classificar_contexto_social that does not look for a request
ContextoSocialPuro(texto_limpo, texto_lower) == Res("Improdutivo", 900)

_classificar_contexto_social(texto_limpo, texto_lower) ==
    IF ContemAlguma(texto_limpo, palavras_solicitacao)
    THEN Res("Improdutivo", 700)
    ELSE Res("Improdutivo", 900)

\* word and weight, in the order of the dict
palavras_produtivas ==
    << <<"erro 500", Dec(30, 10)>>, <<"erro 503", Dec(30, 10)>>,
       <<"não funciona", Dec(28, 10)>>, <<"fora do ar", Dec(28, 10)>>,
       <<"bug", Dec(25, 10)>>, <<"falha", Dec(25, 10)>>,
       <<"quebrado", Dec(25, 10)>>, <<"parou", Dec(25, 10)>>,
       <<"preciso de ajuda", Dec(25, 10)>>,
       <<"necessito de ajuda", Dec(25, 10)>>, <<"problema", Dec(20, 10)>>,
       <<"não consigo", Dec(20, 10)>>, <<"como configurar", Dec(18, 10)>>,
       <<"dúvida", Dec(15, 10)>>, <<"solicitação", Dec(18, 10)>>,
       <<"requisição", Dec(18, 10)>>, <<"chamado", Dec(15, 10)>>,
       <<"configurar", Dec(12, 10)>>, <<"instalar", Dec(12, 10)>>,
       <<"integrar", Dec(12, 10)>>, <<"atualizar", Dec(10, 10)>> >>

palavras_improdutivas ==
    << <<"obrigado", Dec(25, 10)>>, <<"obrigada", Dec(25, 10)>>,
       <<"agradeço", Dec(25, 10)>>, <<"agradecimento", Dec(20, 10)>>,
       <<"muito obrigado", Dec(30, 10)>>, <<"muito obrigada", Dec(30, 10)>>,
       <<"parabéns", Dec(30, 10)>>, <<"parabenizar", Dec(30, 10)>>,
       <<"excelente", Dec(25, 10)>>, <<"maravilhoso", Dec(25, 10)>>,
       <<"perfeito", Dec(25, 10)>>, <<"incrível", Dec(20, 10)>>,
       <<"fantástico", Dec(20, 10)>>, <<"ótimo", Dec(20, 10)>>,
       <<"feliz natal", Dec(30, 10)>>, <<"ano novo", Dec(28, 10)>>,
       <<"boas festas", Dec(25, 10)>>, <<"cumprimentos", Dec(15, 10)>>,
       <<"saudações", Dec(15, 10)>>, <<"saudação", Dec(12, 10)>>,
       <<"gostei", Dec(20, 10)>>, <<"satisfeito", Dec(20, 10)>>,
       <<"content", Dec(18, 10)>>, <<"feliz", Dec(15, 10)>> >>

contextos_agradecimento ==
    << "obrigado", "agradeço", "parabéns", "gostaria de agradecer",
       "quero agradecer", "excelente", "maravilhoso", "muito obrigado" >>

\* lista.index(x)
IndiceDe(lista, x) ==
    CHOOSE i \in 1..Len(lista) : lista[i] = x /\ \A j \in 1..(i - 1) : lista[j] # x

RECURSIVE Juntar(_, _, _)
\* ' '.join(lista[a..b])
Juntar(lista, a, b) ==
    IF a > b THEN ""
    ELSE IF a = b THEN lista[a]
    ELSE lista[a] \o " " \o Juntar(lista, a + 1, b)

_esta_em_contexto_agradecimento(palavra, texto_lower) ==
    LET palavras_vizinhas == SplitWs(texto_lower)
    IN  /\ \E i \in 1..Len(palavras_vizinhas) : palavras_vizinhas[i] = palavra
        /\ LET idx == IndiceDe(palavras_vizinhas, palavra)
               contexto_proximo == Juntar(palavras_vizinhas, Max(1, idx - 3),
                                          Min(Len(palavras_vizinhas), idx + 3))
           IN  \E k \in 1..Len(contextos_agradecimento) :
                   /\ Contem(contexto_proximo, contextos_agradecimento[k])
                   /\ contextos_agradecimento[k] # palavra

RECURSIVE SomaProdutiva(_, _, _, _)
\* lines 199-203: score_produtivo += peso, in the order of the dict
SomaProdutiva(texto_limpo, texto_lower, k, score) ==
    IF k > Len(palavras_produtivas) THEN score
    ELSE SomaProdutiva(texto_limpo, texto_lower, k + 1,
                       IF /\ Contem(texto_limpo, palavras_produtivas[k][1])
                          /\ ~_esta_em_contexto_agradecimento(palavras_produtivas[k][1],
                                                              texto_lower)
                       THEN FSoma(score, palavras_produtivas[k][2])
                       ELSE score)

RECURSIVE SomaImprodutiva(_, _, _)
\* lines 205-208: score_improdutivo += peso, in the order of the dict
SomaImprodutiva(texto_limpo, k, score) ==
    IF k > Len(palavras_improdutivas) THEN score
    ELSE SomaImprodutiva(texto_limpo, k + 1,
                         IF Contem(texto_limpo, palavras_improdutivas[k][1])
                         THEN FSoma(score, palavras_improdutivas[k][2])
                         ELSE score)

\* the pair <<score_produtivo, score_improdutivo>>
_analise_palavras_chave_contextual(texto_limpo, texto_lower) ==
    << SomaProdutiva(texto_limpo, texto_lower, 1, FZero),
       SomaImprodutiva(texto_limpo, 1, FZero) >>

\* len(re.findall(r'!', s))
Exclamacoes(s) == Cardinality({i \in 1..Len(s) : Chr(s, i) = "!"})

\* the weights of lines 237-257 and 264-276, in the order of the code
PesosDePadroes ==
    << Dec(15, 10), Dec(12, 10), Dec(13, 10), Dec(5, 10), Dec(8, 10), Dec(10, 10) >>
PesosDeAjuste == << Dec(20, 10), Dec(15, 10), Dec(10, 10) >>

\* the pair <<padroes_produtivo, padroes_improdutivo>>
\* padroes_produtivo: the question, the imperative and the technical terms
PadroesProdutivos(texto_lower) ==
    Mais(Mais(Mais(FZero,
                   ContemAlguma(texto_lower, <<"?", "como", "por que", "porque", "quando">>),
                   PesosDePadroes[1]),
              ContemAlguma(texto_lower, <<"preciso", "necessito", "urgente", "por favor">>),
              PesosDePadroes[2]),
         ContemAlguma(texto_lower, <<"código", "log", "erro", "exceção", "configuração">>),
         PesosDePadroes[3])

\* padroes_improdutivo: the greeting, the exclamation marks and the praise
PadroesImprodutivos(texto_arg, texto_lower) ==
    Mais(Mais(Mais(FZero,
                   ContemAlguma(texto_lower, <<"olá", "oi ", "bom dia", "boa tarde", "boa noite">>),
                   PesosDePadroes[4]),
              Exclamacoes(texto_arg) > 2, PesosDePadroes[5]),
         ContemAlguma(texto_lower, <<"excelente", "maravilhoso", "perfeito", "incrível">>),
         PesosDePadroes[6])

PadroesDoTexto(texto_arg, texto_lower) ==
    << PadroesProdutivos(texto_lower), PadroesImprodutivos(texto_arg, texto_lower) >>

_analise_padroes_linguisticos(texto_arg) == PadroesDoTexto(texto_arg, lower(texto_arg))

\* the pair <<score_p, score_i>> after the adjustments
palavras_positivas == <<"obrigado", "parabéns", "excelente", "maravilhoso", "perfeito">>

count_positivas(texto_lower) ==
    Cardinality({k \in 1..Len(palavras_positivas) : Contem(texto_lower, palavras_positivas[k])})

_ajuste_final_contextual(texto_lower, score_p, score_i) ==
    << score_p,
       Mais(Mais(Mais(score_i,
                      Contem(texto_lower, "obrigado") /\ Contem(texto_lower, "suporte"),
                      PesosDeAjuste[1]),
                 /\ ContemAlguma(texto_lower, <<"parabéns", "excelente">>)
                 /\ Contem(texto_lower, "problema"),
                 PesosDeAjuste[2]),
            count_positivas(texto_lower) >= 2, PesosDeAjuste[3]) >>

\* the literals of lines 283-299 and 125: the confidence without scores,
\* the cap of the base, the two margins, the three factors and the clamps
ConfiancaSemPontos == Dec(6, 10)
TetoDaBase == Dec(95, 100)
MargemLarga == FInt(3)
MargemMedia == Dec(15, 10)
FatorLargo == Dec(15, 100)
FatorMedio == Dec(8, 100)
FatorEstreito == Dec(-1, 10)
PisoAvancado == Dec(5, 10)
TetoDeConfianca == Dec(98, 100)
PisoLocal == Dec(55, 100)

\* a variant of _calcular_confianca_avancada that lowers the confidence of a
\* wide margin and raises that of a narrow one
\* confianca_base: min(0.95, diferenca / soma)
confianca_base(diferenca, soma) == FMin(TetoDaBase, FDiv(diferenca, soma))

\* max(0.5, min(0.98, confianca_ajustada))
ConfiancaLimitada(confianca_ajustada) ==
    FMax(PisoAvancado, FMin(TetoDeConfianca, confianca_ajustada))

\* a variant of fator_diferenca with the factors of the wide and of the
\* narrow margin exchanged
FatorInvertido(diferenca) ==
    IF FMaior(diferenca, MargemLarga) THEN FatorEstreito
    ELSE IF FMaior(diferenca, MargemMedia) THEN FatorMedio
    ELSE FatorLargo

ConfiancaInvertidaDe(diferenca, soma) ==
    IF Len(soma.mant) = 0 THEN ConfiancaSemPontos
    ELSE ConfiancaLimitada(FSoma(confianca_base(diferenca, soma), FatorInvertido(diferenca)))

ConfiancaFatorInvertido(score_p, score_i) ==
    ConfiancaInvertidaDe(DAbs(FSub(score_p, score_i)), FSoma(score_p, score_i))

\* lines 279-299: the confidence, a float, from the two scores
\* lines 288-293: the factor of the margin
fator_diferenca(diferenca) ==
    IF FMaior(diferenca, MargemLarga) THEN FatorLargo
    ELSE IF FMaior(diferenca, MargemMedia) THEN FatorMedio
    ELSE FatorEstreito

\* lines 283-299, for diferenca = abs(score_p - score_i) and soma =
\* score_p + score_i
ConfiancaDe(diferenca, soma) ==
    IF Len(soma.mant) = 0 THEN ConfiancaSemPontos
    ELSE ConfiancaLimitada(FSoma(confianca_base(diferenca, soma), fator_diferenca(diferenca)))

_calcular_confianca_avancada(score_p, score_i) ==
    ConfiancaDe(DAbs(FSub(score_p, score_i)), FSoma(score_p, score_i))

\* a variant of ClassificarPorTotais that asks for a margin above 1.0, as the
\* orchestrator's fallback does
TotaisComMargem(total_produtivo, total_improdutivo) ==
    Res(IF FMaior(FSub(total_produtivo, total_improdutivo), MargemMinima)
        THEN "Produtivo" ELSE "Improdutivo",
        round3(FMax(PisoLocal,
                    FMin(TetoDeConfianca,
                         _calcular_confianca_avancada(total_produtivo, total_improdutivo)))))

\* a variant of ClassificarPorTotais that resolves a tie to Produtivo
TotaisComEmpateProdutivo(total_produtivo, total_improdutivo) ==
    Res(IF ~FMenor(total_produtivo, total_improdutivo) THEN "Produtivo" ELSE "Improdutivo",
        round3(FMax(PisoLocal,
                    FMin(TetoDeConfianca,
                         _calcular_confianca_avancada(total_produtivo, total_improdutivo)))))

\* a variant of ClassificarPorTotais without the floor of 0.55
TotaisSemPiso(total_produtivo, total_improdutivo) ==
    Res(IF FMaior(total_produtivo, total_improdutivo) THEN "Produtivo" ELSE "Improdutivo",
        round3(FMin(TetoDeConfianca,
                    _calcular_confianca_avancada(total_produtivo, total_improdutivo))))

\* lines 121-132: category and rounded confidence, in thousandths, from the
\* two totals
ClassificarPorTotais(total_produtivo, total_improdutivo) ==
    Res(IF FMaior(total_produtivo, total_improdutivo) THEN "Produtivo" ELSE "Improdutivo",
        round3(FMax(PisoLocal,
                    FMin(TetoDeConfianca,
                         _calcular_confianca_avancada(total_produtivo, total_improdutivo)))))

\* lines 121-132 for the pair totais
ClassificarPorPar(totais) == ClassificarPorTotais(totais[1], totais[2])

\* lines 116-119: the sums of the two analyses, adjusted
TotaisAjustados(texto_lower, palavras, padroes) ==
    _ajuste_final_contextual(texto_lower, FSoma(palavras[1], padroes[1]),
                             FSoma(palavras[2], padroes[2]))

\* lines 110-132: the scoring path
ClassificarPorPontuacao(texto_limpo, texto_lower) ==
    ClassificarPorPar(TotaisAjustados(texto_lower,
                                      _analise_palavras_chave_contextual(texto_limpo, texto_lower),
                                      _analise_padroes_linguisticos(texto_lower)))

\* lines 100-132 once the text is cleaned and its context known
ClassificarNoContexto(texto_limpo, texto_lower, contexto_geral) ==
    IF contexto_geral = "social_forte"
    THEN _classificar_contexto_social(texto_limpo, texto_lower)
    ELSE ClassificarPorPontuacao(texto_limpo, texto_lower)

classificar_localmente(texto) ==
    ClassificarNoContexto(preprocessar_texto_avancado(texto), lower(texto),
                          _analisar_contexto_geral(lower(texto)))

(***************************************************************************)
(* AIService.gerar_resposta: the reply the generation model writes, or a   *)
(* reply of the local banks.  The generation service gives at most two     *)
(* responses to one call, r1 and, when r1 says the model is loading, r2.   *)
(* The body of a response is a JSON value [tipo, itens]: tipo is "lista"   *)
(* for a list, "objeto" for an object and "invalido" for a body json()     *)
(* cannot parse; an item of the list is [tipo, generated_text] with tipo    *)
(* "texto" (an object whose generated_text is a string), "sem_texto" (an   *)
(* object without that key), "nulo" (generated_text is null) or            *)
(* "nao_objeto" (the item is not an object).                               *)
(***************************************************************************)
CorpoGerado(tipo, itens) == [tipo |-> tipo, itens |-> itens]
ItemGerado(tipo, generated_text) == [tipo |-> tipo, generated_text |-> generated_text]

\* the text of the prompt before and after the quoted email, per category
PromptProdutivo == <<
    "\n            Como assistente de suporte t\\xe9cnico, responda este email de forma profissional e \\xfatil:\n            \n            Email: \"",
    "\"\n            \n            Gere uma resposta curta que:\n            - Agradece o contato\n            - Indica que a solicita\\xe7\\xe3o ser\\xe1 analisada\n            - Oferece um prazo aproximado\n            - Seja profissional e direta\n            \n            Resposta:\n            " >>

PromptImprodutivo == <<
    "\n            Como assistente de relacionamento, responda este email de forma educada e amig\\xe1vel:\n            \n            Email: \"",
    "\"\n            \n            Gere uma resposta curta que:\n            - Agradece a mensagem\n            - Retribui a gentileza\n            - Seja breve e cordial\n            \n            Resposta:\n            " >>

\* lines 386-412: the prompt quotes the first 300 characters of the text
Prompt(categoria, texto_original) ==
    LET partes == IF categoria = "Produtivo" THEN PromptProdutivo ELSE PromptImprodutivo
    IN  partes[1] \o Prefixo(texto_original, 300) \o partes[2]

RECURSIVE Replace(_, _, _)
\* s.replace(sub, por) for a non-empty sub
Replace(s, sub, por) ==
    IF Contem(s, sub)
    THEN LET cabeca == PrimeiraParte(s, sub)
         IN  cabeca \o por \o Replace(SubSeq(s, Len(cabeca) + Len(sub) + 1, Len(s)), sub, por)
    ELSE s

\* s.startswith(prefixo)
StartsWith(s, prefixo) == Len(s) >= Len(prefixo) /\ SubSeq(s, 1, Len(prefixo)) = prefixo

RECURSIVE LinhasLimpas(_, _)
\* lines 460-463: the stripped lines of linhas[k..] that are longer than 10
\* characters and do not start with 'Email:'
LinhasLimpas(linhas, k) ==
    IF k > Len(linhas) THEN <<>>
    ELSE LET linha_limpa == strip(linhas[k])
         IN  (IF Len(linha_limpa) > 10 /\ ~StartsWith(linha_limpa, "Email:")
              THEN <<linha_limpa>> ELSE <<>>)
             \o LinhasLimpas(linhas, k + 1)

\* ' '.join(linhas[:2])
JuntarDuas(linhas) ==
    IF Len(linhas) = 0 THEN ""
    ELSE IF Len(linhas) = 1 THEN linhas[1]
    ELSE linhas[1] \o " " \o linhas[2]

_limpar_resposta_gerada(generated_text, prompt) ==
    LET resposta == IF Contem(generated_text, prompt)
                    THEN strip(Replace(generated_text, prompt, ""))
                    ELSE strip(generated_text)
        linhas_limpas == LinhasLimpas(Split(resposta, "\n"), 1)
        resposta_final == Replace(JuntarDuas(linhas_limpas), "\"", "")
    IN  IF resposta_final # "" /\ Chr(resposta_final, Len(resposta_final)) \notin {".", "!", "?"}
        THEN resposta_final \o "."
        ELSE resposta_final

RespostasLocaisProblema == <<
    "Agradecemos o reporte do problema. Nossa equipe t\\xe9cnica j\\xe1 est\\xe1 analisando o caso e retornar\\xe1 em breve.",
    "Identificamos o problema relatado. Um ticket de prioridade foi criado e voc\\xea receber\\xe1 atualiza\\xe7\\xf5es em at\\xe9 2 horas.",
    "Obrigado por reportar esta falha. Nossos desenvolvedores est\\xe3o trabalhando na corre\\xe7\\xe3o.",
    "Confirmamos o recebimento do seu reporte de problema. Estamos investigando e retornaremos com uma solu\\xe7\\xe3o." >>

RespostasLocaisDuvida == <<
    "Agradecemos sua d\\xfavida. Nossa equipe de suporte responder\\xe1 com as orienta\\xe7\\xf5es necess\\xe1rias em breve.",
    "Obrigado pela pergunta. Estamos preparando uma resposta detalhada para auxili\\xe1-lo.",
    "Recebemos sua consulta. Nossa equipe especializada retornar\\xe1 com as informa\\xe7\\xf5es solicitadas.",
    "Agradecemos seu questionamento. Em at\\xe9 1 hora \\xfatil voc\\xea receber\\xe1 nossa resposta completa." >>

RespostasLocaisSolicitacao == <<
    "Agradecemos seu contato. Nossa equipe analisar\\xe1 sua solicita\\xe7\\xe3o e retornar\\xe1 em breve.",
    "Recebemos sua requisi\\xe7\\xe3o. Um ticket foi criado e voc\\xea receber\\xe1 atualiza\\xe7\\xf5es em breve.",
    "Confirmamos o recebimento de sua solicita\\xe7\\xe3o. Retornaremos dentro de 24 horas \\xfateis.",
    "Sua solicita\\xe7\\xe3o foi registrada em nosso sistema. Em breve entraremos em contato." >>

RespostasLocaisFestas == <<
    "Agradecemos suas felicita\\xe7\\xf5es! Desejamos um feliz natal e um pr\\xf3spero ano novo para voc\\xea e toda sua equipe!",
    "Muito obrigado pelas mensagens de festas! Retribu\\xedmos os votos de um excelente natal e ano novo!",
    "Agradecemos seus cumprimentos! Que as festas sejam repletas de alegria e que o novo ano traga ainda mais sucesso!",
    "Obrigado pelas felicita\\xe7\\xf5es! Desejamos a voc\\xea e sua equipe um natal aben\\xe7oado e um ano novo cheio de conquistas!" >>

RespostasLocaisElogio == <<
    "Agradecemos muito pelos elogios! Ficamos felizes em saber que nosso trabalho est\\xe1 atendendo suas expectativas.",
    "Muito obrigado pelo reconhecimento! Sua satisfa\\xe7\\xe3o \\xe9 nossa maior motiva\\xe7\\xe3o para continuar evoluindo.",
    "Agradecemos suas palavras! \\xc9 um prazer poder contribuir com o sucesso do seu neg\\xf3cio.",
    "Obrigado pelo feedback positivo! Estamos sempre buscando oferecer o melhor servi\\xe7o poss\\xedvel." >>

RespostasLocaisMensagem == <<
    "Agradecemos sua mensagem! Desejamos um \\xf3timo dia.",
    "Obrigado pelo contato! Ficamos felizes com sua mensagem.",
    "Agradecemos suas palavras! Estamos sempre \\xe0 disposi\\xe7\\xe3o.",
    "Muito obrigado! Sua mensagem foi recebida com alegria." >>

gerar_resposta_local(categoria, texto_original, salt) ==
    LET texto_lower == lower(texto_original)
        respostas ==
            IF categoria = "Produtivo"
            THEN IF ContemAlguma(texto_lower, <<"erro", "bug", "não funciona">>)
                 THEN RespostasLocaisProblema
                 ELSE IF ContemAlguma(texto_lower, <<"dúvida", "como", "configurar">>)
                 THEN RespostasLocaisDuvida
                 ELSE RespostasLocaisSolicitacao
            ELSE IF ContemAlguma(texto_lower, <<"natal", "ano novo", "festas">>)
                 THEN RespostasLocaisFestas
                 ELSE IF ContemAlguma(texto_lower, <<"parabéns", "elogio">>)
                 THEN RespostasLocaisElogio
                 ELSE RespostasLocaisMensagem
    IN  Resposta(respostas[HashMod(texto_original, Len(respostas), salt) + 1], 0)

\* a variant of RespostaLonga that accepts every completion
RespostaQualquer(resposta) == TRUE

\* line 439: the cleaned completion is long enough to be the reply
RespostaLonga(resposta) == Len(resposta) > 15

\* lines 426-430: the response the call goes on with
RespostaFinal(r1, r2) == IF r1.status = 503 THEN r2 ELSE r1

\* lines 424-449: every exception raised between the request and the return
\* of the completion ends in the local banks
gerar_resposta_com_ai(categoria, texto_original, salt, r1, r2) ==
    LET prompt == Prompt(categoria, texto_original)
        response == RespostaFinal(r1, r2)
        result == response.corpo
        local == gerar_resposta_local(categoria, texto_original, salt)
    IN  IF r1.status = 0 \/ response.status = 0 \/ response.status >= 400
        THEN local
        ELSE IF result.tipo = "invalido"
        THEN local
        ELSE IF result.tipo = "lista" /\ Len(result.itens) > 0
        THEN IF result.itens[1].tipo \in {"nao_objeto", "nulo"}
             THEN local
             ELSE LET generated_text == IF result.itens[1].tipo = "texto"
                                        THEN result.itens[1].generated_text
                                        ELSE ""
                      resposta == _limpar_resposta_gerada(generated_text, prompt)
                  IN  IF RespostaLonga(resposta) THEN Resposta(resposta, 0) ELSE local
        ELSE local

\* lines 473-496: the reply for a category, a text and a confidence in
\* thousandths
gerar_resposta_avancada(categoria, texto_original, confianca) ==
    LET texto_lower == lower(texto_original)
    IN  IF categoria = "Produtivo"
        THEN IF confianca > 850
             THEN IF ContemAlguma(texto_lower, <<"erro", "bug", "falha">>)
                  THEN "\\U0001f527 Identificamos o problema t\\xe9cnico relatado. Nossa equipe priorizou a an\\xe1lise e retornar\\xe1 com a solu\\xe7\\xe3o em at\\xe9 1 hora \\xfatil."
                  ELSE IF ContemAlguma(texto_lower, <<"dúvida", "como fazer">>)
                  THEN "\\U0001f4a1 Agradecemos sua consulta. Nossa equipe especializada est\\xe1 preparando uma resposta detalhada para orient\\xe1-lo no processo."
                  ELSE "\\u2705 Recebemos sua solicita\\xe7\\xe3o. Um ticket foi criado com prioridade e voc\\xea receber\\xe1 atualiza\\xe7\\xf5es em breve."
             ELSE "\\U0001f4e8 Agradecemos seu contato. Nossa equipe analisar\\xe1 a mensagem e retornar\\xe1 dentro do prazo de 24 horas \\xfateis."
        ELSE IF confianca > 850
             THEN IF ContemAlguma(texto_lower, <<"natal", "ano novo">>)
                  THEN "\\U0001f384 Agradecemos as felicita\\xe7\\xf5es! Retribu\\xedmos os votos de um feliz natal e um pr\\xf3spero ano novo para voc\\xea e toda equipe!"
                  ELSE IF ContemAlguma(texto_lower, <<"parabéns", "elogio">>)
                  THEN "\\u2b50 Muito obrigado pelo reconhecimento! Ficamos felizes em saber que nosso trabalho est\\xe1 fazendo a diferen\\xe7a."
                  ELSE "\\U0001f64f Agradecemos sua mensagem! Valorizamos muito o contato e desejamos um excelente dia."
             ELSE "\\U0001f48c Obrigado pelo contato! Sua mensagem foi recebida e apreciamos sua intera\\xe7\\xe3o conosco."

\* lines 625-631: gerar_resposta_com_ai catches every exception itself, so
\* the except clause of gerar_resposta is never entered
gerar_resposta(categoria, texto_original, salt, r1, r2) ==
    gerar_resposta_com_ai(categoria, texto_original, salt, r1, r2)

(***************************************************************************)
(* The environment: the texts callers pass, the responses the inference    *)
(* service gives, the ticket numbers random.randint draws.                 *)
(***************************************************************************)
Textos == { "",
            "   bug    ",
            "Feliz Natal a todos",
            " Tenho uma duvida simples ",
            "!!!!!!!!!!!!" }

\* a path of the file system.  estado says what is at the path: "texto", a
\* file whose bytes are the UTF-8 text conteudo; "binario", a file whose
\* bytes are not UTF-8 (its first byte is 0xff); "ausente", nothing;
\* "diretorio", a directory; "negado", a file the process may not read.
\* paginas are the texts PyPDF2 extracts from the file, page by page, where
\* PyPDF2 is installed.
Arquivo(caminho, estado, conteudo, paginas) ==
    [caminho |-> caminho, estado |-> estado, conteudo |-> conteudo, paginas |-> paginas]

\* the paths callers pass: text files, PDF files and a format that is not
\* supported
Arquivos == { Arquivo("a.txt", "texto", "Feliz Natal a todos", <<>>),
              Arquivo("b.txt", "texto", "!!!!!!!!!!!!", <<>>),
              Arquivo("c.doc", "texto", "Feliz Natal a todos", <<>>),
              Arquivo("d.txt", "texto", "oi", <<>>),
              Arquivo("e.txt", "ausente", "", <<>>),
              Arquivo("it's.txt", "ausente", "", <<>>),
              Arquivo("ctl.txt", "ausente", "", <<>>),
              Arquivo("g.txt", "texto", "Feliz\r\n\r\nab", <<>>),
              Arquivo("h.txt", "binario", "", <<>>),
              Arquivo("i.txt", "diretorio", "", <<>>),
              Arquivo("k.txt", "negado", "", <<>>),
              Arquivo("f.pdf", "binario", "", <<"", "Sistema fora do ar">>),
              Arquivo("j.pdf", "ausente", "", <<>>) }

\* whether "import PyPDF2" succeeds in the process of the service: the
\* library is not among the modules of the repository, and the service runs
\* without it
PyPDF2Instalado == {FALSE}

Resp(status, corpo) == [status |-> status, corpo |-> corpo]
CorpoSemLabels == [error |-> "Model is currently loading"]
Corpo(labels, scores) == [labels |-> labels, scores |-> scores]

Corpos == { CorpoSemLabels,
            Corpo(<<"improdutivo", "produtivo">>, <<100, 900>>),
            Corpo(<<"improdutivo", "produtivo">>, <<1000, 0>>),
            Corpo(<<"improdutivo", "produtivo">>, <<1200, -200>>),
            Corpo(<<>>, <<>>) }

Respostas == {Resp(st, CorpoSemLabels) : st \in {0, 500, 503}}
             \cup {Resp(200, c) : c \in Corpos}

SemResposta == Resp(-1, CorpoSemLabels)

\* a variant of DeveRepetir that repeats the request for as long as the model
\* answers 503
RepetirEnquantoCarrega(resp, n) == resp.status = 503

\* lines 72-75: the response to the n-th request to a model is answered by
\* one more request; the retry is an if, not a loop
DeveRepetir(resp, n) == n = 1 /\ resp.status = 503

\* the models seen to answer their first request with a 503, after model k
\* answered its n-th request with resp
Observar(vistos, k, n, resp) == IF n = 1 /\ resp.status = 503 THEN vistos \cup {k} ELSE vistos

TicketIds == {1000, 9999}

\* the lengths of the reply banks: the moduli a hash is reduced by
Modulos == {Len(RespostasProdutivas), Len(RespostasLocaisProblema)}

\* nothing is known of the hash of a new process
SemHash == [x \in {} |-> 0]

\* what is known of the process's hash, with 0 where a residue of hash(s) is
\* not known yet
ComHash(conhecido, s) ==
    [x \in DOMAIN conhecido \cup {<<s, n>> : n \in Modulos} |->
        IF x \in DOMAIN conhecido THEN conhecido[x] ELSE 0]

\* the residues of hash(s) that are not known yet
Desconhecidos(conhecido, s) == {<<s, n>> : n \in Modulos} \ DOMAIN conhecido

\* the hashes a call is tried with to see what its result depends on: one
\* hash, and the same with one residue of hash(s) that is not known yet
\* changed
Sondas(conhecido, s) ==
    {ComHash(conhecido, s)}
        \cup {[ComHash(conhecido, s) EXCEPT ![x] = 1] : x \in Desconhecidos(conhecido, s)}

\* the residues of hash(s), not known yet, that the result of a call depends
\* on; resultado[f] is the result of the call in a process of hash f
Dependencias(conhecido, s, resultado) ==
    {x \in Desconhecidos(conhecido, s) :
        resultado[ComHash(conhecido, s)] # resultado[[ComHash(conhecido, s) EXCEPT ![x] = 1]]}

\* what can be known of the process's hash after the call: each residue the
\* result depends on takes any of its values, the residues of a hash modulo
\* 3 and modulo 4 being independent of each other
Revelar(conhecido, s, resultado) ==
    LET deps == Dependencias(conhecido, s, resultado)
    IN  { [x \in DOMAIN conhecido \cup deps |->
              IF x \in DOMAIN conhecido THEN conhecido[x] ELSE v[x]] :
          v \in {w \in [deps -> 0..3] : \A x \in deps : w[x] < x[2]} }

\* a thread of the server: where it is in processar_email, the result of
\* classificar_email and how it was obtained, the value it read last from
\* the clock or from the metrics, and whether its call returned a response
Thread(ponto, res, metodo, lido, ok) ==
    [pc |-> ponto, res |-> res, metodo |-> metodo, lido |-> lido, ok |-> ok]
ThreadParado == Thread("parado", ResultadoPadrao, "", 0, FALSE)

(***************************************************************************)
(* The state.                                                              *)
(***************************************************************************)
VARIABLES
    config,                  \* Config: ENABLE_HUGGINGFACE
    hash_salt,               \* the hashes of this process known from its replies
    classification_history,  \* AIService.classification_history
    relogio,                 \* time.time(): the number of entries recorded so far
    metrics,                 \* EmailService.metrics
    op,                      \* the operation in progress, or the last one
    pc,                      \* "idle", "hf" (a request is outstanding), "lote"
    texto_email,             \* classificar_email's argument texto
    modelo_idx,              \* the model of the outstanding request
    tentativa,               \* 1: first request to the model, 2: the retry
    requests_log,            \* the models requested during the current call
    falhou,                  \* the models that failed during the current call
    carregando,              \* the models whose first response was a 503, this call
    resposta_vencedora,      \* the response the current call's result comes from
    camadas,                 \* the tiers the current call has entered
    emails,                  \* processar_lote's argument
    resultados,              \* processar_lote's resultados
    ret,                     \* what the last operation returned or raised
    chamadas,                \* the number of texts handed to the engine
    threads                  \* the threads running processar_email at the same time

vars == << config, hash_salt, classification_history, relogio, metrics, op, pc, texto_email,
           modelo_idx, tentativa, requests_log, falhou, carregando, resposta_vencedora,
           camadas, emails, resultados, ret, chamadas, threads >>

Init ==
    /\ config \in [ENABLE_HUGGINGFACE : BOOLEAN]
    /\ hash_salt = SemHash
    /\ classification_history = <<>>
    /\ relogio = 0
    /\ metrics = [ total_emails_processados |-> 0, emails_produtivos |-> 0,
                   emails_improdutivos |-> 0 ]
    /\ op = "nenhuma"
    /\ pc = "idle"
    /\ texto_email = ""
    /\ modelo_idx = 0
    /\ tentativa = 0
    /\ requests_log = <<>>
    /\ falhou = {}
    /\ carregando = {}
    /\ resposta_vencedora = SemResposta
    /\ camadas = <<>>
    /\ emails = <<>>
    /\ resultados = <<>>
    /\ ret = SemRetorno
    /\ chamadas = 0
    /\ threads = [th \in 1..MaxThreads |-> ThreadParado]

(***************************************************************************)
(* Files.  AIService.processar_arquivo reads a text file whole, or the     *)
(* pages of a PDF file through PyPDF2 where that library is installed.     *)
(***************************************************************************)
\* the characters up to U+00FF for which repr() writes an escape, other than
\* the quote, each with its escape: the backslash, \n, \r and \t by name, the
\* other control characters, U+007F to U+00A0 and U+00AD as \xNN.  U+0000 is
\* not a character of a path
EscapesDeRepr ==
    << <<"\\", "\\\\">>, <<"\n", "\\n">>, <<"\r", "\\r">>, <<"\t", "\\t">>,
       <<"", "\\x01">>, <<"", "\\x02">>, <<"", "\\x03">>, <<"", "\\x04">>,
       <<"", "\\x05">>, <<"", "\\x06">>, <<"", "\\x07">>, <<"", "\\x08">>,
       <<"", "\\x0b">>, <<"\f", "\\x0c">>, <<"", "\\x0e">>, <<"", "\\x0f">>,
       <<"", "\\x10">>, <<"", "\\x11">>, <<"", "\\x12">>, <<"", "\\x13">>,
       <<"", "\\x14">>, <<"", "\\x15">>, <<"", "\\x16">>, <<"", "\\x17">>,
       <<"", "\\x18">>, <<"", "\\x19">>, <<"", "\\x1a">>, <<"", "\\x1b">>,
       <<"", "\\x1c">>, <<"", "\\x1d">>, <<"", "\\x1e">>, <<"", "\\x1f">>,
       <<"", "\\x7f">>, <<"", "\\x80">>, <<"", "\\x81">>, <<"", "\\x82">>,
       <<"", "\\x83">>, <<"", "\\x84">>, <<"", "\\x85">>, <<"", "\\x86">>,
       <<"", "\\x87">>, <<"", "\\x88">>, <<"", "\\x89">>, <<"", "\\x8a">>,
       <<"", "\\x8b">>, <<"", "\\x8c">>, <<"", "\\x8d">>, <<"", "\\x8e">>,
       <<"", "\\x8f">>, <<"", "\\x90">>, <<"", "\\x91">>, <<"", "\\x92">>,
       <<"", "\\x93">>, <<"", "\\x94">>, <<"", "\\x95">>, <<"", "\\x96">>,
       <<"", "\\x97">>, <<"", "\\x98">>, <<"", "\\x99">>, <<"", "\\x9a">>,
       <<"", "\\x9b">>, <<"", "\\x9c">>, <<"", "\\x9d">>, <<"", "\\x9e">>,
       <<"", "\\x9f">>, <<" ", "\\xa0">>, <<"­", "\\xad">> >>

\* repr() of one character inside the quotes aspas
ReprChar(c, aspas) ==
    IF c = aspas THEN "\\" \o c
    ELSE IF \E k \in 1..Len(EscapesDeRepr) : EscapesDeRepr[k][1] = c
    THEN EscapesDeRepr[CHOOSE k \in 1..Len(EscapesDeRepr) : EscapesDeRepr[k][1] = c][2]
    ELSE c

RECURSIVE ReprDesde(_, _, _)
ReprDesde(s, aspas, i) ==
    IF i > Len(s) THEN "" ELSE ReprChar(Chr(s, i), aspas) \o ReprDesde(s, aspas, i + 1)

\* repr(s) of a string: in single quotes, or in double quotes when s holds a
\* single quote and no double quote
repr(s) ==
    LET aspas == IF Contem(s, "'") /\ ~Contem(s, "\"") THEN "\"" ELSE "'"
    IN  aspas \o ReprDesde(s, aspas, 1) \o aspas

RECURSIVE NovasLinhas(_, _)
\* what a file opened in text mode gives for the characters of s from the
\* i-th on: each \r\n and each other \r is read as \n
NovasLinhas(s, i) ==
    IF i > Len(s) THEN ""
    ELSE IF Chr(s, i) = "\r"
    THEN "\n" \o NovasLinhas(s, IF i < Len(s) /\ Chr(s, i + 1) = "\n" THEN i + 2 ELSE i + 1)
    ELSE Chr(s, i) \o NovasLinhas(s, i + 1)

\* the OSError open() raises for the path arq.caminho, if any
ErroDeAbertura(arq) ==
    IF arq.estado = "ausente"
    THEN Excecao("FileNotFoundError",
                 "[Errno 2] No such file or directory: " \o repr(arq.caminho), 0)
    ELSE IF arq.estado = "diretorio"
    THEN Excecao("IsADirectoryError", "[Errno 21] Is a directory: " \o repr(arq.caminho), 0)
    ELSE IF arq.estado = "negado"
    THEN Excecao("PermissionError", "[Errno 13] Permission denied: " \o repr(arq.caminho), 0)
    ELSE SemExcecao

\* str(n) of a natural number
RECURSIVE Decimal(_)
Decimal(n) ==
    IF n < 10 THEN Chr("0123456789", n + 1)
    ELSE Decimal(n \div 10) \o Chr("0123456789", (n % 10) + 1)

RECURSIVE TextoDasPaginas(_, _, _)
\* extrair_texto_pdf, lines 369-372: texto after the pages from the i-th on
TextoDasPaginas(paginas, i, texto) ==
    IF i > Len(paginas) THEN texto
    ELSE TextoDasPaginas(paginas, i + 1,
                         IF paginas[i] = "" THEN texto
                         ELSE texto \o "--- Página " \o Decimal(i) \o " ---\n"
                                    \o paginas[i] \o "\n\n")

\* AIService.extrair_texto_pdf(arq.caminho), with PyPDF2 installed (pypdf2)
\* or not: always a text, which reports what went wrong
extrair_texto_pdf(arq, pypdf2) ==
    IF ~pypdf2
    THEN "[ERRO: Biblioteca PyPDF2 não instalada. Use: pip install PyPDF2]"
    ELSE IF ErroDeAbertura(arq) # SemExcecao
    THEN "[ERRO ao processar PDF: " \o ErroDeAbertura(arq).msg \o "]"
    ELSE IF strip(TextoDasPaginas(arq.paginas, 1, "")) = ""
    THEN "[AVISO: Nenhum texto extraído do PDF. O arquivo pode ser digitalizado.]"
    ELSE strip(TextoDasPaginas(arq.paginas, 1, ""))

\* AIService.processar_arquivo(arq.caminho): the text it returns or the
\* exception it raises
AIService_processar_arquivo(arq, pypdf2) ==
    IF EndsWith(arq.caminho, ".txt")
    THEN IF ErroDeAbertura(arq) # SemExcecao
         THEN Retorno("excecao", ErroDeAbertura(arq))
         ELSE IF arq.estado = "binario"
         THEN Retorno("excecao",
                      Excecao("UnicodeDecodeError",
                              "'utf-8' codec can't decode byte 0xff in position 0: "
                                  \o "invalid start byte",
                              0))
         ELSE Retorno("texto", NovasLinhas(arq.conteudo, 1))
    ELSE IF EndsWith(arq.caminho, ".pdf")
    THEN Retorno("texto", extrair_texto_pdf(arq, pypdf2))
    ELSE Retorno("excecao", Excecao("ValueError", "Formato de arquivo n\\xe3o suportado", 0))

\* EmailService.processar_arquivo, line 174: whatever was raised leaves as a
\* ValueError that quotes its message
ErroDeArquivo(e) == Excecao("ValueError", "Erro ao processar arquivo: " \o e.msg, e.n)

\* what the caller o of processar_email raises when processar_email raised e
ErroDoChamador(o, e) == IF o = "processar_arquivo" THEN ErroDeArquivo(e) ELSE e

(***************************************************************************)
(* classificar_email, as called directly and from processar_email.         *)
(***************************************************************************)
\* what the caller o of classificar_email does with its result res for text t;
\* random.randint draws the ticket_id of the reply
Concluir(o, t, res) ==
    IF o = "classificar_email"
    THEN /\ ret' = Retorno("resultado", res)
         /\ pc' = "idle"
         /\ resultados' = <<>>
         /\ UNCHANGED <<metrics, hash_salt>>
    ELSE \E ticket_id \in TicketIds :
         \E conhecido \in Revelar(hash_salt, lower(t),
                                  [f \in Sondas(hash_salt, lower(t)) |->
                                      gerar_resposta_inteligente(res.categoria, t,
                                                                 res.confianca, f, ticket_id)]) :
         LET salt == ComHash(conhecido, lower(t))
             out == processar_email_resto(t, res, metrics, salt, ticket_id)
         IN  /\ hash_salt' = conhecido
             /\ metrics' = out.metrics
             /\ IF o \in {"processar_email", "processar_arquivo"}
                THEN /\ ret' = IF out.ret.tipo = "excecao"
                               THEN Retorno("excecao", ErroDoChamador(o, out.ret.valor))
                               ELSE out.ret
                     /\ pc' = "idle"
                     /\ resultados' = <<>>
                ELSE /\ resultados' = Append(resultados,
                                             RegistroDoItem(out.ret, emails[Len(resultados) + 1]))
                     /\ pc' = "lote"
                     /\ UNCHANGED ret

\* classificar_com_huggingface has not been entered
SemRemoto ==
    /\ modelo_idx' = 0
    /\ tentativa' = 0
    /\ requests_log' = <<>>
    /\ falhou' = {}
    /\ carregando' = {}
    /\ resposta_vencedora' = SemResposta
    /\ camadas' = <<>>

\* no call of classificar_email is in progress
SemChamada == texto_email' = "" /\ SemRemoto

\* classificar_email up to its first request (lines 599-606, 57-70)
EntrarClassificar(o, t) ==
    /\ UNCHANGED <<classification_history, relogio>>
    /\ IF TextoCurto(t)
       THEN /\ texto_email' = t
            /\ SemRemoto
            /\ Concluir(o, t, ResultadoPadrao)
       ELSE /\ texto_email' = t
            /\ modelo_idx' = 1
            /\ tentativa' = 1
            /\ requests_log' = <<1>>
            /\ falhou' = {}
            /\ carregando' = {}
            /\ resposta_vencedora' = SemResposta
            /\ camadas' = <<"huggingface">>
            /\ pc' = "hf"
            /\ UNCHANGED <<metrics, hash_salt>>
            /\ IF o = "processar_lote"
               THEN UNCHANGED <<ret, resultados>>
               ELSE ret' = SemRetorno /\ resultados' = <<>>

\* the exception e ends the caller o before classificar_email is called
Levantar(o, e, email_texto) ==
    /\ UNCHANGED <<classification_history, relogio, metrics, hash_salt>>
    /\ SemChamada
    /\ IF o = "processar_lote"
       THEN /\ resultados' = Append(resultados, RegistroDeErro(e, email_texto))
            /\ pc' = "lote"
            /\ UNCHANGED ret
       ELSE /\ ret' = Retorno("excecao", ErroDoChamador(o, e))
            /\ pc' = "idle"
            /\ resultados' = <<>>

classificar_email(t) ==
    /\ pc = "idle"
    /\ op' = "classificar_email"
    /\ chamadas' = chamadas + 1
    /\ emails' = <<>>
    /\ EntrarClassificar("classificar_email", t)
    /\ UNCHANGED <<threads, config>>

\* processar_email(EmailRequest(texto=t)): the request exists, so its
\* constructor accepted t and stripped it
processar_email(t) ==
    /\ pc = "idle"
    /\ EmailRequest_post_init(t) = SemExcecao
    /\ op' = "processar_email"
    /\ chamadas' = chamadas + 1
    /\ emails' = <<>>
    /\ IF _validar_email_request(strip(t)) # SemExcecao
       THEN Levantar("processar_email", _validar_email_request(strip(t)), t)
       ELSE EntrarClassificar("processar_email", strip(t))
    /\ UNCHANGED <<threads, config>>

\* EmailService.processar_arquivo(arq.caminho), with PyPDF2 installed
\* (pypdf2) or not: the text of the file, when it has ten characters or more
\* besides the white space around it, goes through EmailRequest and
\* processar_email
processar_arquivo(arq, pypdf2) ==
    /\ pc = "idle"
    /\ op' = "processar_arquivo"
    /\ chamadas' = chamadas + 1
    /\ emails' = <<>>
    /\ LET lido == AIService_processar_arquivo(arq, pypdf2)
           texto == lido.valor
       IN  IF lido.tipo = "excecao"
           THEN Levantar("processar_arquivo", lido.valor, "")
           ELSE IF Len(texto) = 0 \/ Len(strip(texto)) < 10
           THEN Levantar("processar_arquivo",
                         Excecao("ValueError",
                                 "Arquivo vazio ou conte\\xfado insuficiente: " \o arq.caminho,
                                 0),
                         texto)
           ELSE IF EmailRequest_post_init(texto) # SemExcecao
           THEN Levantar("processar_arquivo", EmailRequest_post_init(texto), texto)
           ELSE IF _validar_email_request(strip(texto)) # SemExcecao
           THEN Levantar("processar_arquivo", _validar_email_request(strip(texto)), texto)
           ELSE EntrarClassificar("processar_arquivo", strip(texto))
    /\ UNCHANGED <<threads, config>>

(***************************************************************************)
(* classificar_com_huggingface: the handling of one response.              *)
(***************************************************************************)
\* lines 72-75: the response says the model is loading; ask once more
hf_repetir(r) ==
    /\ pc = "hf"
    /\ DeveRepetir(r, tentativa)
    /\ tentativa' = tentativa + 1
    /\ requests_log' = Append(requests_log, modelo_idx)
    /\ carregando' = Observar(carregando, modelo_idx, tentativa, r)
    /\ UNCHANGED <<threads, config, hash_salt, classification_history, relogio, metrics, op, pc,
                   texto_email, modelo_idx, falhou, resposta_vencedora, camadas, emails,
                   resultados, ret, chamadas>>

\* lines 77-91 and 607-608: the model answered; record and return
hf_sucesso(r) ==
    /\ pc = "hf"
    /\ ~DeveRepetir(r, tentativa)
    /\ carregando' = Observar(carregando, modelo_idx, tentativa, r)
    /\ InterpretarResposta(modelos[modelo_idx], r).ok
    /\ LET res == InterpretarResposta(modelos[modelo_idx], r)
       IN  /\ classification_history' =
                  _registrar_classificacao(classification_history, relogio + 1,
                                           MetodoRemoto, res.categoria, res.confianca)
           /\ relogio' = relogio + 1
           /\ Concluir(op, texto_email, Res(res.categoria, res.confianca))
    /\ resposta_vencedora' = r
    /\ UNCHANGED <<threads, config, op, texto_email, modelo_idx, tentativa, requests_log,
                   falhou, camadas, emails, chamadas>>

\* a variant of hf_proximo_modelo that gives up at the first model that fails
hf_desistir(r) ==
    /\ pc = "hf"
    /\ ~DeveRepetir(r, tentativa)
    /\ carregando' = Observar(carregando, modelo_idx, tentativa, r)
    /\ ~InterpretarResposta(modelos[modelo_idx], r).ok
    /\ modelo_idx < Len(modelos)
    /\ falhou' = falhou \cup {modelo_idx}
    /\ camadas' = Append(camadas, "local")
    /\ Concluir(op, texto_email, ResultadoFallback(texto_email))
    /\ UNCHANGED <<threads, config, classification_history, relogio, op, texto_email,
                   modelo_idx, tentativa, requests_log, resposta_vencedora, emails,
                   chamadas>>

\* a variant of hf_proximo_modelo that goes straight to the last model
hf_ultimo_modelo(r) ==
    /\ pc = "hf"
    /\ ~DeveRepetir(r, tentativa)
    /\ carregando' = Observar(carregando, modelo_idx, tentativa, r)
    /\ ~InterpretarResposta(modelos[modelo_idx], r).ok
    /\ modelo_idx < Len(modelos)
    /\ falhou' = falhou \cup {modelo_idx}
    /\ modelo_idx' = Len(modelos)
    /\ tentativa' = 1
    /\ requests_log' = Append(requests_log, Len(modelos))
    /\ UNCHANGED <<threads, config, hash_salt, classification_history, relogio, metrics, op, pc,
                   texto_email, resposta_vencedora, camadas, emails, resultados, ret, chamadas>>

\* lines 93-95 and 57-70: the model failed; request the next one
hf_proximo_modelo(r) ==
    /\ pc = "hf"
    /\ ~DeveRepetir(r, tentativa)
    /\ carregando' = Observar(carregando, modelo_idx, tentativa, r)
    /\ ~InterpretarResposta(modelos[modelo_idx], r).ok
    /\ modelo_idx < Len(modelos)
    /\ falhou' = falhou \cup {modelo_idx}
    /\ modelo_idx' = modelo_idx + 1
    /\ tentativa' = 1
    /\ requests_log' = Append(requests_log, modelo_idx + 1)
    /\ UNCHANGED <<threads, config, hash_salt, classification_history, relogio, metrics, op, pc,
                   texto_email, resposta_vencedora, camadas, emails, resultados, ret, chamadas>>

\* a variant of hf_todos_falharam that records the answer of the local fallback
hf_fallback_registrado(r) ==
    /\ pc = "hf"
    /\ ~DeveRepetir(r, tentativa)
    /\ carregando' = Observar(carregando, modelo_idx, tentativa, r)
    /\ ~InterpretarResposta(modelos[modelo_idx], r).ok
    /\ modelo_idx = Len(modelos)
    /\ falhou' = falhou \cup {modelo_idx}
    /\ camadas' = Append(camadas, "local")
    /\ classification_history' =
           _registrar_classificacao(classification_history, relogio + 1, MetodoLocal,
                                    ResultadoFallback(texto_email).categoria,
                                    ResultadoFallback(texto_email).confianca)
    /\ relogio' = relogio + 1
    /\ Concluir(op, texto_email, ResultadoFallback(texto_email))
    /\ UNCHANGED <<threads, config, op, texto_email,
                   modelo_idx, tentativa, requests_log, resposta_vencedora, emails,
                   chamadas>>

\* lines 97 and 609-612: the last model failed; the local fallback answers
hf_todos_falharam(r) ==
    /\ pc = "hf"
    /\ ~DeveRepetir(r, tentativa)
    /\ carregando' = Observar(carregando, modelo_idx, tentativa, r)
    /\ ~InterpretarResposta(modelos[modelo_idx], r).ok
    /\ modelo_idx = Len(modelos)
    /\ falhou' = falhou \cup {modelo_idx}
    /\ camadas' = Append(camadas, "local")
    /\ Concluir(op, texto_email, ResultadoFallback(texto_email))
    /\ UNCHANGED <<threads, config, classification_history, relogio, op, texto_email,
                   modelo_idx, tentativa, requests_log, resposta_vencedora, emails,
                   chamadas>>

(***************************************************************************)
(* processar_lote.                                                         *)
(***************************************************************************)
processar_lote(es) ==
    /\ pc = "idle"
    /\ op' = "processar_lote"
    /\ emails' = es
    /\ resultados' = <<>>
    /\ ret' = SemRetorno
    /\ pc' = "lote"
    /\ SemChamada
    /\ UNCHANGED <<threads, config, hash_salt, classification_history, relogio, metrics, chamadas>>

\* lines 123-126: the next item
lote_item ==
    /\ pc = "lote"
    /\ Len(resultados) < Len(emails)
    /\ chamadas' = chamadas + 1
    /\ LET email_texto == emails[Len(resultados) + 1]
       IN  IF EmailRequest_post_init(email_texto) # SemExcecao
           THEN Levantar("processar_lote", EmailRequest_post_init(email_texto), email_texto)
           ELSE IF _validar_email_request(strip(email_texto)) # SemExcecao
           THEN Levantar("processar_lote", _validar_email_request(strip(email_texto)),
                         email_texto)
           ELSE EntrarClassificar("processar_lote", strip(email_texto))
    /\ UNCHANGED <<threads, config, op, emails>>

\* lines 143-147: the report of the batch, tempo_total/len(emails), and the return
lote_fim ==
    /\ pc = "lote"
    /\ Len(resultados) = Len(emails)
    /\ ret' = IF Len(emails) = 0
              THEN Retorno("excecao", Excecao("ZeroDivisionError", "float division by zero", 0))
              ELSE Retorno("lote", resultados)
    /\ pc' = "idle"
    /\ UNCHANGED <<threads, config, hash_salt, classification_history, relogio, metrics, op, texto_email,
                   modelo_idx, tentativa, requests_log, falhou, resposta_vencedora, camadas,
                   emails, resultados, carregando, chamadas>>

\* AIService called directly: classificar_email on every text, against every
\* behaviour of the inference service
Next ==
    \/ (chamadas < MaxCalls /\ \E t \in Textos : classificar_email(t))
    \/ (\E r \in Respostas : hf_repetir(r))
    \/ (\E r \in Respostas : hf_sucesso(r))
    \/ (\E r \in Respostas : hf_proximo_modelo(r))
    \/ (\E r \in Respostas : hf_todos_falharam(r))

Spec == Init /\ [][Next]_vars

\* EmailService called with one email or one file, against every behaviour of
\* the inference service
NextProcessar ==
    \/ (chamadas < MaxProcessar /\ \E t \in Textos : processar_email(t))
    \/ (chamadas < MaxProcessar
          /\ \E arq \in Arquivos, pypdf2 \in PyPDF2Instalado : processar_arquivo(arq, pypdf2))
    \/ (\E r \in Respostas : hf_repetir(r))
    \/ (\E r \in Respostas : hf_sucesso(r))
    \/ (\E r \in Respostas : hf_proximo_modelo(r))
    \/ (\E r \in Respostas : hf_todos_falharam(r))

SpecProcessar == Init /\ [][NextProcessar]_vars

(***************************************************************************)
(* The history under a long run of remote successes: one text, a service   *)
(* that answers 503 or a fixed result, up to MaxRegistros recorded         *)
(* entries.                                                                *)
(***************************************************************************)
TextoHist == "Feliz Natal a todos"

RespostasHist == { Resp(503, CorpoSemLabels),
                   Resp(200, Corpo(<<"improdutivo", "produtivo">>, <<100, 900>>)) }

NextHist ==
    \/ (relogio < MaxRegistros /\ classificar_email(TextoHist))
    \/ (\E r \in RespostasHist : hf_repetir(r))
    \/ (\E r \in RespostasHist : hf_sucesso(r))

SpecHist == Init /\ [][NextHist]_vars

(***************************************************************************)
(* The history under a long run of calls of classificar_email of which at  *)
(* most MaxLocais are answered without the remote tier: a text too short   *)
(* to be classified and one that reaches the classifiers, a service that   *)
(* answers 503, fails or answers a fixed result, and that, once it failed  *)
(* during a call, is down until the call ends.                             *)
(***************************************************************************)
TextosFrame == { "oi", TextoHist }

RespostasFrame == RespostasHist \cup { Resp(500, CorpoSemLabels) }

NextFrame ==
    \/ (relogio < MaxRegistros /\ chamadas - relogio < MaxLocais
            /\ \E t \in TextosFrame : classificar_email(t))
    \/ (\E r \in RespostasFrame : hf_repetir(r))
    \/ (falhou = {} /\ \E r \in RespostasFrame : hf_sucesso(r))
    \/ (\E r \in RespostasFrame : hf_proximo_modelo(r))
    \/ (\E r \in RespostasFrame : hf_todos_falharam(r))

SpecFrame == Init /\ [][NextFrame]_vars

(***************************************************************************)
(* One batch of at most MaxLote texts, among them a text of 151 characters *)
(* that validation rejects; the service fails or answers with a score.     *)
(***************************************************************************)
\* "!" * 151
TextoLongoInvalido ==
    "!!!!!!!!!!!!!!!!!!!!!!!!!!!!!!!!!!!!!!!!!!!!!!!!!!!!!!!!!!!!!!!!!!!!!!!!!!!!!!!!!!!!!!!!!!!!!!!!!!!!!!!!!!!!!!!!!!!!!!!!!!!!!!!!!!!!!!!!!!!!!!!!!!!!!!!"

TextosLoteErro == { "oi", TextoLongoInvalido, "Feliz Natal a todos" }

RespostasLote == { Resp(500, CorpoSemLabels),
                   Resp(200, Corpo(<<"improdutivo", "produtivo">>, <<100, 900>>)),
                   Resp(200, Corpo(<<"improdutivo", "produtivo">>, <<1200, -200>>)) }

LotesDe(textos, n) == UNION {[1..k -> textos] : k \in 0..n}

NextLote ==
    \/ (op = "nenhuma" /\ \E es \in LotesDe(TextosLoteErro, MaxLote) : processar_lote(es))
    \/ lote_item
    \/ lote_fim
    \/ (\E r \in RespostasLote : hf_sucesso(r))
    \/ (\E r \in RespostasLote : hf_proximo_modelo(r))
    \/ (\E r \in RespostasLote : hf_todos_falharam(r))

SpecLote == Init /\ [][NextLote]_vars

(***************************************************************************)
(* Reply generation called on its own: gerar_resposta against every        *)
(* behaviour of the generation service, gerar_resposta_inteligente with    *)
(* every ticket number.  ret holds the arguments and the reply of the      *)
(* last call, resposta_vencedora the response gerar_resposta went on with. *)
(***************************************************************************)
Categorias == {"Produtivo", "Improdutivo", "ERRO"}

TextosResposta == { "Erro no sistema",
                    "como configurar a conta",
                    "Feliz Natal a todos",
                    "FELIZ NATAL A TODOS",
                    "Mensagem para a equipe" }

\* confianca, in thousandths
Confiancas == {600, 800, 850, 900}

\* the completions the generation model writes for a prompt
TextosGerados(prompt) ==
    { "",
      "Ok.",
      "Obrigado pelo contato, retornaremos em breve",
      "Email: \"oi\"\n  Agradecemos a sua mensagem!  \ncurta\nRetornaremos em 24 horas.\nEsta linha fica de fora.",
      "\"\"\"\"\"\"\"\"\"\"\"\"\"\"\"\"\"\"\"\"",
      prompt \o " Agradecemos o contato, sua mensagem sera analisada?" }

RespostasGeracao(prompt) ==
    { Resp(0, CorpoGerado("invalido", <<>>)),
      Resp(503, CorpoGerado("objeto", <<>>)),
      Resp(500, CorpoGerado("objeto", <<>>)),
      Resp(200, CorpoGerado("invalido", <<>>)),
      Resp(200, CorpoGerado("objeto", <<>>)),
      Resp(200, CorpoGerado("lista", <<>>)),
      Resp(200, CorpoGerado("lista", <<ItemGerado("nao_objeto", "")>>)),
      Resp(200, CorpoGerado("lista", <<ItemGerado("nulo", "")>>)),
      Resp(200, CorpoGerado("lista", <<ItemGerado("sem_texto", "")>>)) }
    \cup { Resp(200, CorpoGerado("lista", <<ItemGerado("texto", g)>>)) : g \in TextosGerados(prompt) }

RespostaGerada(categoria, t, confianca, resposta) ==
    [categoria |-> categoria, texto |-> t, confianca |-> confianca, resposta |-> resposta]

\* gerar_resposta(categoria, t): the service answers r1 and, asked again, r2.
\* The call reads nothing another call wrote, so each call is taken from the
\* initial state.
chamar_gerar_resposta(categoria, t, r1, r2) ==
    /\ pc = "idle"
    /\ op = "nenhuma"
    /\ r1.status # 503 => r2 = r1
    /\ op' = "gerar_resposta"
    /\ texto_email' = t
    /\ resposta_vencedora' = RespostaFinal(r1, r2)
    /\ \E conhecido \in Revelar(hash_salt, t,
                                  [f \in Sondas(hash_salt, t) |->
                                      gerar_resposta(categoria, t, f, r1, r2)]) :
          LET salt == ComHash(conhecido, t)
          IN  /\ hash_salt' = conhecido
              /\ ret' = Retorno("resposta",
                                RespostaGerada(categoria, t, 0,
                                               gerar_resposta(categoria, t, salt, r1, r2)))
    /\ UNCHANGED << threads, config, classification_history, relogio, metrics, pc, modelo_idx,
                    tentativa, requests_log, falhou, carregando, camadas, emails, resultados,
                    chamadas >>

\* gerar_resposta_inteligente(categoria, t, confianca): random.randint draws
\* ticket_id.  The process calls it again on the same email, in any letter
\* case, with any category and confidence.
chamar_gerar_resposta_inteligente(categoria, t, confianca, ticket_id) ==
    /\ pc = "idle"
    /\ op # "nenhuma" => op = "gerar_resposta_inteligente" /\ lower(t) = lower(texto_email)
    /\ op' = "gerar_resposta_inteligente"
    /\ texto_email' = t
    /\ resposta_vencedora' = SemResposta
    /\ \E conhecido \in Revelar(hash_salt, lower(t),
                                  [f \in Sondas(hash_salt, lower(t)) |->
                                      gerar_resposta_inteligente(categoria, t, confianca,
                                                                 f, ticket_id)]) :
          LET salt == ComHash(conhecido, lower(t))
          IN  /\ hash_salt' = conhecido
              /\ ret' = Retorno("resposta",
                                RespostaGerada(categoria, t, confianca,
                                    gerar_resposta_inteligente(categoria, t, confianca,
                                                               salt, ticket_id)))
    /\ UNCHANGED << threads, config, classification_history, relogio, metrics, pc, modelo_idx,
                    tentativa, requests_log, falhou, carregando, camadas, emails, resultados,
                    chamadas >>

NextResposta ==
    \/ \E categoria \in Categorias, t \in TextosResposta :
         \E r1 \in RespostasGeracao(Prompt(categoria, t)),
            r2 \in RespostasGeracao(Prompt(categoria, t)) :
              chamar_gerar_resposta(categoria, t, r1, r2)
    \/ \E categoria \in Categorias, t \in TextosResposta, confianca \in Confiancas,
          ticket_id \in TicketIds :
              chamar_gerar_resposta_inteligente(categoria, t, confianca, ticket_id)

SpecResposta == Init /\ [][NextResposta]_vars

(***************************************************************************)
(* Threads of one server process calling processar_email on the same       *)
(* EmailService.  Neither service holds a lock.  A thread can be           *)
(* interrupted between any two bytecodes: time.time(), list.append, len    *)
(* and list.pop are single steps, while metrics[k] += 1 is a read of       *)
(* metrics[k] followed by a write of the value read plus one.  The         *)
(* service answers every request of one call the same way, with an error   *)
(* or with a score.                                                        *)
(***************************************************************************)
TextosConc == { "Feliz Natal a todos", "!!!!!!!!!!!!" }

RespostasConc == { Resp(500, CorpoSemLabels),
                   Resp(200, Corpo(<<"improdutivo", "produtivo">>, <<100, 900>>)) }

SoThreads ==
    UNCHANGED << config, hash_salt, op, pc, texto_email, modelo_idx, tentativa, requests_log,
                 falhou, carregando, resposta_vencedora, camadas, emails, resultados, ret,
                 chamadas >>

Passo(th, ponto) == threads' = [threads EXCEPT ![th].pc = ponto]

\* lines 30-35 and 599-612: validation and classification, up to the point
\* where the result is recorded or, for a local result, the metrics are read
t_processar_email(th, t, r) ==
    /\ threads[th].pc = "parado"
    /\ EmailRequest_post_init(t) = SemExcecao
    /\ LET remoto == InterpretarResposta(modelos[1], r)
       IN  threads' = [threads EXCEPT ![th] =
               IF _validar_email_request(strip(t)) # SemExcecao
               THEN Thread("fim", ResultadoPadrao, "", 0, FALSE)
               ELSE IF remoto.ok
               THEN Thread("relogio", Res(remoto.categoria, remoto.confianca), MetodoRemoto, 0, FALSE)
               ELSE Thread("ler_total", ResultadoFallback(strip(t)), MetodoLocal, 0, FALSE)]
    /\ UNCHANGED <<classification_history, relogio, metrics>>
    /\ SoThreads

\* line 616: time.time() is evaluated while the entry is built, before append
\* is called
t_relogio(th) ==
    /\ threads[th].pc = "relogio"
    /\ threads' = [threads EXCEPT ![th].pc = "append", ![th].lido = relogio]
    /\ relogio' = relogio + 1
    /\ UNCHANGED <<classification_history, metrics>>
    /\ SoThreads

\* lines 615-620: classification_history.append(...) of the entry built
t_append(th) ==
    /\ threads[th].pc = "append"
    /\ classification_history' =
           Append(classification_history,
                  [timestamp |-> threads[th].lido, metodo |-> threads[th].metodo,
                   categoria |-> threads[th].res.categoria,
                   confianca |-> threads[th].res.confianca])
    /\ Passo(th, "len")
    /\ UNCHANGED <<relogio, metrics>>
    /\ SoThreads

\* line 622: the test len(classification_history) > 100
t_len(th) ==
    /\ threads[th].pc = "len"
    /\ Passo(th, IF Len(classification_history) > 100 THEN "pop" ELSE "ler_total")
    /\ UNCHANGED <<classification_history, relogio, metrics>>
    /\ SoThreads

\* line 623: classification_history.pop(0), after the test was true
t_pop(th) ==
    /\ threads[th].pc = "pop"
    /\ Len(classification_history) > 0
    /\ classification_history' = Tail(classification_history)
    /\ Passo(th, "ler_total")
    /\ UNCHANGED <<relogio, metrics>>
    /\ SoThreads

\* line 106, first half: read metrics['total_emails_processados']
t_ler_total(th) ==
    /\ threads[th].pc = "ler_total"
    /\ threads' = [threads EXCEPT ![th].pc = "escrever_total",
                                  ![th].lido = metrics.total_emails_processados]
    /\ UNCHANGED <<classification_history, relogio, metrics>>
    /\ SoThreads

\* line 106, second half: store the value read plus one
t_escrever_total(th) ==
    /\ threads[th].pc = "escrever_total"
    /\ metrics' = [metrics EXCEPT !.total_emails_processados = threads[th].lido + 1]
    /\ Passo(th, "ler_categoria")
    /\ UNCHANGED <<classification_history, relogio>>
    /\ SoThreads

\* lines 108-111, first half: read the counter of the category
t_ler_categoria(th) ==
    /\ threads[th].pc = "ler_categoria"
    /\ threads' = [threads EXCEPT ![th].pc = "escrever_categoria",
                                  ![th].lido = IF threads[th].res.categoria = "Produtivo"
                                               THEN metrics.emails_produtivos
                                               ELSE metrics.emails_improdutivos]
    /\ UNCHANGED <<classification_history, relogio, metrics>>
    /\ SoThreads

\* lines 108-111, second half: store the value read plus one
t_escrever_categoria(th) ==
    /\ threads[th].pc = "escrever_categoria"
    /\ metrics' = IF threads[th].res.categoria = "Produtivo"
                  THEN [metrics EXCEPT !.emails_produtivos = threads[th].lido + 1]
                  ELSE [metrics EXCEPT !.emails_improdutivos = threads[th].lido + 1]
    /\ Passo(th, "retornar")
    /\ UNCHANGED <<classification_history, relogio>>
    /\ SoThreads

\* lines 52-59: the EmailResponse is built and returned
t_retornar(th) ==
    /\ threads[th].pc = "retornar"
    /\ threads' = [threads EXCEPT ![th].pc = "fim",
                                  ![th].ok = ~ConfiancaInvalida(threads[th].res.confianca)]
    /\ UNCHANGED <<classification_history, relogio, metrics>>
    /\ SoThreads

NextConc ==
    \/ \E th \in 1..MaxThreads, t \in TextosConc, r \in RespostasConc : t_processar_email(th, t, r)
    \/ \E th \in 1..MaxThreads : t_relogio(th)
    \/ \E th \in 1..MaxThreads : t_append(th)
    \/ \E th \in 1..MaxThreads : t_len(th)
    \/ \E th \in 1..MaxThreads : t_pop(th)
    \/ \E th \in 1..MaxThreads : t_ler_total(th)
    \/ \E th \in 1..MaxThreads : t_escrever_total(th)
    \/ \E th \in 1..MaxThreads : t_ler_categoria(th)
    \/ \E th \in 1..MaxThreads : t_escrever_categoria(th)
    \/ \E th \in 1..MaxThreads : t_retornar(th)

\* the threads start on a service that is new or has recorded 99 remote
\* classifications, one after the other
InitConc ==
    /\ Init!1 /\ Init!2
    /\ \E n \in {0, 99} :
          /\ relogio = n
          /\ classification_history =
                 [k \in 1..n |-> [timestamp |-> k - 1, metodo |-> MetodoRemoto,
                                  categoria |-> "Produtivo", confianca |-> 900]]
    /\ metrics = [ total_emails_processados |-> 0, emails_produtivos |-> 0,
                   emails_improdutivos |-> 0 ]
    /\ op = "nenhuma"
    /\ pc = "idle"
    /\ texto_email = ""
    /\ modelo_idx = 0
    /\ tentativa = 0
    /\ requests_log = <<>>
    /\ falhou = {}
    /\ carregando = {}
    /\ resposta_vencedora = SemResposta
    /\ camadas = <<>>
    /\ emails = <<>>
    /\ resultados = <<>>
    /\ ret = SemRetorno
    /\ chamadas = 0
    /\ threads = [th \in 1..MaxThreads |-> ThreadParado]

SpecConc == InitConc /\ [][NextConc]_vars

(***************************************************************************)
(* The local classifiers called on their own, and their derivations of a   *)
(* confidence applied to every pair of the scores Pontuacoes.  These calls *)
(* read and write no state of the service: each is taken from the initial  *)
(* state.                                                                  *)
(***************************************************************************)
ExemploSocial == "Muito obrigado pela ajuda, feliz natal!"

TextosLocais ==
    { ExemploSocial,
      "Feliz Natal a todos",
      "Boas festas e um otimo ano novo",
      "Excelente! Preciso de ajuda com um erro",
      "obrigado pelo suporte, problema resolvido",
      "Quero parabenizar a equipe pelos bugs corrigidos",
      "Trabalho maravilhoso, ele necessitou de pouco tempo",
      "Muito obrigada por ajudar",
      "perfeito maravilhoso obrigado",
      "Tenho um problema no login, como configurar?",
      "O sistema parou, bug no modulo",
      "Bom dia, preciso instalar o programa por favor",
      "erro 500 no servidor urgente",
      "Reuniao marcada para amanha",
      "oi tudo bem!!! gostei",
      "Urgente: feliz natal a todos",
      "Sistema fora do ar, muito obrigado",
      "Excelente, mas tenho uma duvida?",
      "Ficou maravilhoso ou nao?",
      "Tenho uma duvida simples",
      "O relatorio ficou lento",
      "Quando voce fica feliz",
      "Gostei da solucao do problema",
      "Ola, segue o log de ontem",
      "Bom dia, qual o prazo?",
      "chamado configurar instalar por favor. obrigada contente!!!" }

\* the scores handed to the derivations: the multiples of 0.5 up to MaxScore
\* halves, which binary floating point represents exactly, and scores that
\* it does not: 0.7, 2.2 and 5.1, and the sum 1.5 + 1.2 + 1.2 + 1.2 of four
\* weights, which is the float next above 5.1
Pontuacoes ==
    {Dec(5 * k, 10) : k \in 0..MaxScore}
        \cup { Dec(7, 10), Dec(22, 10), Dec(51, 10),
               FSoma(FSoma(FSoma(Dec(15, 10), Dec(12, 10)), Dec(12, 10)), Dec(12, 10)) }

Pontuacao(score_p, score_i, local, fallback) ==
    [score_p |-> score_p, score_i |-> score_i, local |-> local, fallback |-> fallback]

SoRetorno ==
    UNCHANGED << threads, config, hash_salt, classification_history, relogio, metrics, pc,
                 modelo_idx, tentativa, requests_log, falhou, carregando, resposta_vencedora,
                 camadas, emails, resultados, chamadas >>

chamar_classificar_localmente(t) ==
    /\ op = "nenhuma"
    /\ op' = "classificar_localmente"
    /\ texto_email' = t
    /\ ret' = Retorno("resultado", classificar_localmente(t))
    /\ SoRetorno

chamar_classificar_localmente_aprimorado(t) ==
    /\ op = "nenhuma"
    /\ op' = "classificar_localmente_aprimorado"
    /\ texto_email' = t
    /\ ret' = Retorno("resultado", classificar_localmente_aprimorado(t))
    /\ SoRetorno

\* texts with a productive phrase near and far from a gratitude term
TextosChave ==
    TextosLocais \cup
    { "Obrigado equipe, erro 500 voltou hoje",
      "O bug apareceu ontem de novo aqui, excelente que o bug sumiu",
      "Excelente trabalho no chamado de ontem",
      "Abri um chamado ontem e ainda nao tive retorno, obrigado",
      "erro 503 ao instalar, preciso atualizar" }

PontuacaoLexical(score_produtivo, score_improdutivo) ==
    [score_produtivo |-> score_produtivo, score_improdutivo |-> score_improdutivo]

\* _analise_palavras_chave_contextual(texto_limpo, texto_lower) as
\* classificar_localmente calls it for the text t (lines 102-103, 110)
chamar_analise_palavras_chave_contextual(t) ==
    /\ op = "nenhuma"
    /\ op' = "_analise_palavras_chave_contextual"
    /\ texto_email' = t
    /\ LET scores == _analise_palavras_chave_contextual(preprocessar_texto_avancado(t), lower(t))
       IN  ret' = Retorno("pontuacao", PontuacaoLexical(scores[1], scores[2]))
    /\ SoRetorno

\* lines 121-132 and 646-655 applied to the scores score_p and score_i
derivar_confianca(score_p, score_i) ==
    /\ op = "nenhuma"
    /\ op' = "derivar_confianca"
    /\ texto_email' = ""
    /\ ret' = Retorno("confianca",
                      Pontuacao(score_p, score_i,
                                ClassificarPorTotais(score_p, score_i),
                                ClassificarPorDiferenca(score_p, score_i)))
    /\ SoRetorno

NextLocal ==
    \/ \E t \in TextosLocais : chamar_classificar_localmente(t)
    \/ \E t \in TextosLocais : chamar_classificar_localmente_aprimorado(t)
    \/ \E t \in TextosChave : chamar_analise_palavras_chave_contextual(t)
    \/ \E score_p \in Pontuacoes, score_i \in Pontuacoes : derivar_confianca(score_p, score_i)

SpecLocal == Init /\ [][NextLocal]_vars

(***************************************************************************)
(* CategoriaEmail.from_string called on every casing of the members'       *)
(* values and on strings that are not one.  The call reads and writes no   *)
(* state of the services.                                                  *)
(***************************************************************************)
UpperChar(c) ==
    IF \E p \in ParaMinuscula : p[2] = c
    THEN (CHOOSE p \in ParaMinuscula : p[2] = c)[1]
    ELSE c

\* the strings that s becomes when each of its characters from the i-th on
\* is written in upper or in lower case
RECURSIVE CaixasDesde(_, _)
CaixasDesde(s, i) ==
    IF i > Len(s) THEN {""}
    ELSE {c \o resto : c \in {LowerChar(Chr(s, i)), UpperChar(Chr(s, i))},
                       resto \in CaixasDesde(s, i + 1)}

Caixas(s) == CaixasDesde(s, 1)

CaixasDosMembros == UNION {Caixas(CategoriaEmail[k].value) : k \in 1..Len(CategoriaEmail)}

OutrosValores ==
    { "", "   ", "ERRO", "Spam", "produtiv", "Produtivos", "Produtivo.", "im produtivo",
      "Produtivo Improdutivo", "PRODUTIVO", " produtivo ", "IMPRODUTIVO\n", "\tProdutivo",
      "productive", "Produtiv0" }

chamar_from_string(value) ==
    /\ op = "nenhuma"
    /\ op' = "from_string"
    /\ texto_email' = value
    /\ ret' = from_string(value)
    /\ SoRetorno

NextCategoria ==
    \E value \in CaixasDosMembros \cup OutrosValores : chamar_from_string(value)

SpecCategoria == Init /\ [][NextCategoria]_vars

(***************************************************************************)
(* Properties.  A call of classificar_email is over when pc is not "hf";   *)
(* its argument, its requests and the tiers it entered stay in texto_email,*)
(* requests_log and camadas until the next call begins.                    *)
(***************************************************************************)
\* the number of requests the log holds for model k
Contagem(log, k) == Cardinality({i \in 1..Len(log) : log[i] = k})

Elementos(seq) == {seq[i] : i \in 1..Len(seq)}

TodosOsModelos == 1..Len(modelos)

\* the call of classificar_email in progress has ended by returning to a
\* direct caller
ClassificarRetornou == op = "classificar_email" /\ pc = "idle"

\* C1: for every text whose trimmed length is at least 10, classificar_email
\* returns a category in {Produtivo, Improdutivo} and a confidence in
\* [0.5, 0.98], whichever tier answers.
C1_ConfiancaNaFaixa ==
    (ClassificarRetornou /\ Len(strip(texto_email)) >= 10)
        => /\ ret.tipo = "resultado"
           /\ ret.valor.categoria \in {"Produtivo", "Improdutivo"}
           /\ 500 <= ret.valor.confianca
           /\ ret.valor.confianca <= 980

\* C2: when every remote model fails, classificar_email raises nothing and
\* returns exactly what classificar_localmente_aprimorado returns for the text.
C2_FallbackLocal ==
    (ClassificarRetornou /\ falhou = TodosOsModelos)
        => ret = Retorno("resultado", classificar_localmente_aprimorado(texto_email))

C2_Witness ==
    /\ ClassificarRetornou
    /\ falhou = TodosOsModelos
    /\ texto_email = " Tenho uma duvida simples "
    /\ ret.tipo = "resultado"
    /\ ret.valor.categoria = "Produtivo"

\* C3: when ENABLE_HUGGINGFACE is false, classificar_email sends no remote
\* request and returns the result of the local path.
C3_SemRemotoSeDesativado ==
    ~config.ENABLE_HUGGINGFACE
        => /\ requests_log = <<>>
           /\ (ClassificarRetornou /\ Len(strip(texto_email)) >= 10)
                 => ret = Retorno("resultado",
                                  classificar_localmente_aprimorado(texto_email))

\* C4: for an empty text or one whose trimmed length is below 10,
\* classificar_email returns (Improdutivo, 0.6) at once: no remote request is
\* sent and the local classifier does not run.
C4_TextoCurtoImediato ==
    (op = "classificar_email" /\ (Len(texto_email) = 0 \/ Len(strip(texto_email)) < 10))
        => /\ pc = "idle"
           /\ ret = Retorno("resultado", Res("Improdutivo", 600))
           /\ requests_log = <<>>
           /\ camadas = <<>>

C4_Witness ==
    /\ ClassificarRetornou
    /\ texto_email = "   bug    "
    /\ ret.tipo = "resultado"
    /\ chamadas = 2

\* C5: classificar_com_huggingface raises (and the local tier is entered) if
\* and only if every configured model failed; otherwise it returns the result
\* of a model that answered.
C5_LevantaSseTodosFalham ==
    /\ (pc = "hf") => "local" \notin Elementos(camadas)
    /\ (pc # "hf" /\ camadas # <<>>)
          => /\ ("local" \in Elementos(camadas)) <=> (falhou = TodosOsModelos)
             /\ ("local" \notin Elementos(camadas))
                   => /\ resposta_vencedora # SemResposta
                      /\ InterpretarResposta(modelos[modelo_idx], resposta_vencedora).ok

C5_Witness ==
    /\ ClassificarRetornou
    /\ camadas = <<"huggingface", "local">>
    /\ Len(requests_log) = 2 * Len(modelos)

\* C6: the models are requested in their configured order, model k+1 only
\* after model k failed; the first model that succeeds is the last one
\* requested, and the result returned is the one derived from its response.
C6_ModelosEmOrdem ==
    /\ requests_log # <<>> => requests_log[1] = 1
    /\ \A i \in 2..Len(requests_log) :
          \/ requests_log[i] = requests_log[i - 1]
          \/ /\ requests_log[i] = requests_log[i - 1] + 1
             /\ requests_log[i - 1] \in falhou
    /\ resposta_vencedora # SemResposta
          => /\ pc # "hf"
             /\ requests_log[Len(requests_log)] = modelo_idx
             /\ falhou = 1..(modelo_idx - 1)
             /\ ClassificarRetornou
                   => LET res == InterpretarResposta(modelos[modelo_idx], resposta_vencedora)
                      IN  ret = Retorno("resultado", Res(res.categoria, res.confianca))

C6_Witness ==
    /\ ClassificarRetornou
    /\ resposta_vencedora # SemResposta
    /\ requests_log = <<1, 2, 2, 3>>
    /\ ret.valor.confianca = 855

\* C7: a model is requested a second time if and only if its first response
\* carried status 503, and never a third time: at most 2 requests per model
\* and at most 6 per call.
C7_NoMaximoUmaRepeticao ==
    /\ \A k \in TodosOsModelos :
          /\ Contagem(requests_log, k) <= 2
          /\ (Contagem(requests_log, k) = 2) <=> (k \in carregando)
    /\ Len(requests_log) <= 2 * Len(modelos)
    /\ tentativa <= 2

C7_Witness ==
    /\ carregando = {1, 3}
    /\ requests_log = <<1, 1, 2, 3, 3>>
    /\ pc = "idle"

\* C8: classification_history never holds more than 100 entries, and they are
\* the most recently recorded ones in arrival order: recording the 101st
\* evicts the oldest.
C8_HistoricoLimitado ==
    /\ Len(classification_history) = Min(relogio, 100)
    /\ \A i \in 1..Len(classification_history) :
          classification_history[i].timestamp = relogio - Len(classification_history) + i

C8_Witness ==
    /\ relogio = 101
    /\ Len(classification_history) = 100
    /\ classification_history[1].timestamp = 2
    /\ classification_history[100].timestamp = 101

\* C9 as stated: every history entry recorded for a remote success is tagged
\* "remote", and the method of any entry is "remote" or "local".
C9_MetodoRemote ==
    /\ \A i \in 1..Len(classification_history) :
          classification_history[i].metodo \in {"remote", "local"}
    /\ (pc # "hf" /\ resposta_vencedora # SemResposta)
          => classification_history[Len(classification_history)].metodo = "remote"

\* C9 amended: the entry recorded for a remote success carries the result and
\* the tag "huggingface", and "huggingface" is the method of every entry.
C9_MetodoHuggingface ==
    /\ \A i \in 1..Len(classification_history) :
          classification_history[i].metodo = "huggingface"
    /\ (pc # "hf" /\ resposta_vencedora # SemResposta)
          => LET res == InterpretarResposta(modelos[modelo_idx], resposta_vencedora)
             IN  classification_history[Len(classification_history)] =
                     [ timestamp |-> relogio, metodo |-> "huggingface",
                       categoria |-> res.categoria, confianca |-> res.confianca ]

C9_Witness ==
    /\ pc = "idle"
    /\ resposta_vencedora # SemResposta
    /\ Len(classification_history) = 2
    /\ classification_history[2].categoria = "Produtivo"

\* s[:150] + '...' if len(s) > 150 else s
EcoTruncado(s) == IF Len(s) > 150 THEN SubSeq(s, 1, 150) \o "..." ELSE s

\* C10: processar_lote returns a sequence as long as its input in which record
\* i is the outcome of input i (it carries the text of input i, summarised in
\* a response and echoed in an error record), an error record when item i
\* failed; no failure aborts the batch or moves the other records.
C10_LoteAlinhado ==
    (op = "processar_lote" /\ pc = "idle")
        => /\ ret.tipo = "lote"
           /\ Len(ret.valor) = Len(emails)
           /\ \A i \in 1..Len(emails) :
                 /\ ret.valor[i].texto_processado =
                        IF ret.valor[i].erro # SemExcecao THEN EcoTruncado(emails[i])
                        ELSE _processar_e_resumir_texto(strip(emails[i]), 200)
                 /\ (EmailRequest_post_init(emails[i]) # SemExcecao)
                       => ret.valor[i] =
                              RegistroDeErro(EmailRequest_post_init(emails[i]), emails[i])

\* EmailRequest or processar_email rejects the text before it is classified
ItemInvalido(s) ==
    \/ EmailRequest_post_init(s) # SemExcecao
    \/ _validar_email_request(strip(s)) # SemExcecao

\* r is an error record for the input s, with the category cat
RegistroDeFalha(r, s, cat) ==
    /\ r.categoria = cat
    /\ r.confianca = 0
    /\ r.resposta_sugerida = Resposta("N\\xe3o foi poss\\xedvel processar este email.", 0)
    /\ r.texto_processado = EcoTruncado(s)

\* C11 as stated: the record processar_lote emits for a failed item has
\* category "ERROR", confidence 0.0, the fixed failure message as reply and a
\* truncated echo of the input text.
C11_RegistroERROR ==
    \A i \in 1..Len(resultados) :
        (ItemInvalido(emails[i]) \/ resultados[i].erro # SemExcecao)
            => RegistroDeFalha(resultados[i], emails[i], "ERROR")

\* C11 amended: the record of a failed item has category "ERRO", confidence
\* 0.0, the fixed failure message as reply and the input text cut to its
\* first 150 characters followed by "..." when it is longer; every other
\* record carries one of the two categories.
C11_RegistroERRO ==
    \A i \in 1..Len(resultados) :
        /\ ItemInvalido(emails[i]) => resultados[i].erro # SemExcecao
        /\ resultados[i].erro # SemExcecao
              => RegistroDeFalha(resultados[i], emails[i], "ERRO")
        /\ resultados[i].erro = SemExcecao
              => resultados[i].categoria \in {"Produtivo", "Improdutivo"}

C11_Witness ==
    /\ op = "processar_lote"
    /\ pc = "idle"
    /\ ret.tipo = "lote"
    /\ emails = <<TextoLongoInvalido, "Feliz Natal a todos">>
    /\ Len(ret.valor[1].texto_processado) = 153
    /\ ret.valor[2].erro.n = 1200


\* the reply of the last call, as the caller receives it
UltimaResposta == ret.valor.resposta

GeracaoRetornou == op \in {"gerar_resposta", "gerar_resposta_inteligente"}

\* C12: reply generation never fails and never returns an empty string: for
\* every category, text and confidence and for every behaviour of the
\* generation service (request error, error status, unparsable or empty body,
\* empty or too short completion), gerar_resposta and
\* gerar_resposta_inteligente return a non-empty string.
C12_RespostaNuncaVazia ==
    GeracaoRetornou => ret.tipo = "resposta" /\ Len(UltimaResposta.texto) > 0

\* gerar_resposta got a completion that cleans to the empty string and
\* answered from the local banks
C12_Witness ==
    /\ op = "gerar_resposta"
    /\ resposta_vencedora.status = 200
    /\ resposta_vencedora.corpo.tipo = "lista"
    /\ Len(resposta_vencedora.corpo.itens) = 1
    /\ resposta_vencedora.corpo.itens[1].tipo = "texto"
    /\ Len(resposta_vencedora.corpo.itens[1].generated_text) = 20
    /\ <<ret.valor.texto, Len(RespostasLocaisMensagem)>> \in DOMAIN hash_salt
    /\ UltimaResposta = gerar_resposta_local(ret.valor.categoria, ret.valor.texto, hash_salt)


\* the calls a and b got the same category and confidence and texts that
\* are equal after lower()
MesmaEntrada(a, b) ==
    /\ a.categoria = b.categoria
    /\ a.confianca = b.confianca
    /\ lower(a.texto) = lower(b.texto)

\* C13: on the templated path the reply is a function of (category,
\* lower-case text, confidence): two calls of gerar_resposta_inteligente in
\* one process with the same category and confidence and texts equal after
\* lowercasing return the identical string.
C13_RespostaDeterministica ==
    [][ ( /\ op = "gerar_resposta_inteligente"
          /\ op' = "gerar_resposta_inteligente"
          /\ MesmaEntrada(ret.valor, ret'.valor) )
        => ret'.valor.resposta = ret.valor.resposta ]_vars


ProcessarRetornou == op = "processar_email" /\ pc = "idle"

\* the messages of the exceptions _validar_email_request raises
MensagensDeValidacao ==
    { "Requisi\\xe7\\xe3o de email inv\\xe1lida: texto ausente",
      "Texto do email muito curto: {} caracteres (m\\xednimo: 10)",
      "Texto do email muito longo: {} caracteres (m\\xe1ximo: 15.000)",
      "Texto do email cont\\xe9m poucos caracteres v\\xe1lidos" }

\* C14: processar_email raises only a validation error, for a malformed
\* text; for every text that passes validation it returns a response,
\* whatever the remote service does (errors, bodies without labels, any
\* scores).  texto_email is the text handed to classificar_email, "" when
\* validation ended the call.
C14_SoErrosDeValidacao ==
    ProcessarRetornou =>
        /\ ret.tipo \in {"excecao", "EmailResponse"}
        /\ ret.tipo = "excecao" => ret.valor.msg \in MensagensDeValidacao
        /\ texto_email # "" => ret.tipo = "EmailResponse"


TodosTerminaram == \A th \in 1..MaxThreads : threads[th].pc = "fim"

\* C15: the updates of the history and of the metrics are serialized: for
\* every interleaving of concurrent processar_email calls on one
\* EmailService, once all calls have completed total_emails_processados is
\* the number of calls that returned a response, the two category counters
\* add up to it, and the history holds one entry per remote classification
\* recorded so far (relogio of them), the last 100 when there are more.
C15_SemAtualizacaoPerdida ==
    TodosTerminaram =>
        /\ metrics.total_emails_processados
               = Cardinality({th \in 1..MaxThreads : threads[th].ok})
        /\ metrics.emails_produtivos + metrics.emails_improdutivos
               = Cardinality({th \in 1..MaxThreads : threads[th].ok})
        /\ Len(classification_history) = Min(relogio, 100)


\* the words of a text: its lower-case letters and digits between punctuation
\* and spaces
PalavrasDe(t) == SplitWs(SubstituirPontuacao(lower(t), 1))

\* a strong-social phrase occurs in the text
TemFraseSocial(t) == ContemAlguma(lower(t), padroes_sociais_fortes)

\* one of the words of the text is a request marker
TemPalavraDeSolicitacao(t) ==
    \E i \in 1..Len(PalavrasDe(t)), k \in 1..Len(palavras_solicitacao) :
        PalavrasDe(t)[i] = palavras_solicitacao[k]

\* no request marker occurs in the text, not even inside a longer word
SemSolicitacao(t) == ~ContemAlguma(lower(t), palavras_solicitacao)

\* a request marker occurs in the text once it is lower-cased, cleared of
\* punctuation and stop words, and its words are stemmed
TemSolicitacaoNoTextoLimpo(t) ==
    ContemAlguma(preprocessar_texto_avancado(t), palavras_solicitacao)

\* C16 as stated: in classificar_localmente a text with a strong-social
\* phrase is Improdutivo by the short-circuit alone, with confidence at least
\* 0.9 when none of its words is a request marker and 0.7 when one is.
C16_AtalhoPorPalavra ==
    (op = "classificar_localmente" /\ TemFraseSocial(texto_email)) =>
        /\ ret.valor.categoria = "Improdutivo"
        /\ ~TemPalavraDeSolicitacao(texto_email) => ret.valor.confianca >= 900
        /\ TemPalavraDeSolicitacao(texto_email) => ret.valor.confianca = 700

\* C16 amended: in classificar_localmente a text with a strong-social phrase
\* is Improdutivo by the short-circuit alone, whatever its scores: with
\* confidence 0.7 when a request marker occurs in the cleaned, stemmed text,
\* inside a longer stem or not, and with 0.9 otherwise.  So a text one of
\* whose words is a marker gets 0.7 and a text in which no marker occurs at
\* all gets 0.9.
C16_AtalhoSocial ==
    (op = "classificar_localmente" /\ TemFraseSocial(texto_email)) =>
        /\ ret.valor.categoria = "Improdutivo"
        /\ ret.valor.confianca
               = IF TemSolicitacaoNoTextoLimpo(texto_email) THEN 700 ELSE 900
        /\ SemSolicitacao(texto_email) => ret.valor.confianca = 900
        /\ TemPalavraDeSolicitacao(texto_email) => ret.valor.confianca = 700

\* a text of thanks none of whose words is a request marker is Improdutivo at
\* 0.7, because the stem of 'ajudar' holds the marker 'ajuda'
C16_Witness ==
    /\ op = "classificar_localmente"
    /\ texto_email = "Muito obrigada por ajudar"
    /\ TemFraseSocial(texto_email)
    /\ ~TemPalavraDeSolicitacao(texto_email)
    /\ TemSolicitacaoNoTextoLimpo(texto_email)
    /\ ret.valor = Res("Improdutivo", 700)

LocalRetornou == op \in {"classificar_localmente", "classificar_localmente_aprimorado"}

\* C17 as stated: "Muito obrigado pela ajuda, feliz natal!" is Improdutivo
\* with confidence at least 0.9 both in classificar_localmente and in the
\* orchestrator's local fallback.
C17_ExemploPeloMenos900 ==
    (LocalRetornou /\ texto_email = ExemploSocial) =>
        ret.valor.categoria = "Improdutivo" /\ ret.valor.confianca >= 900

\* C17 amended: the example is Improdutivo in both classifiers; the
\* orchestrator's fallback gives it 0.92, classificar_localmente gives it 0.7
\* because 'ajuda' is a request marker.
C17_ExemploSocial ==
    (LocalRetornou /\ texto_email = ExemploSocial) =>
        /\ ret.valor.categoria = "Improdutivo"
        /\ op = "classificar_localmente" => ret.valor.confianca = 700
        /\ op = "classificar_localmente_aprimorado" => ret.valor.confianca = 920

C17_Witness ==
    /\ op = "classificar_localmente"
    /\ texto_email = ExemploSocial
    /\ TemFraseSocial(texto_email)
    /\ TemPalavraDeSolicitacao(texto_email)
    /\ ret.valor.confianca = 700

\* C18: with the unproductive score held fixed, a larger productive score
\* never gets a lower confidence than a smaller one when both are
\* Produtivo, in the derivation of classificar_localmente (lines 121-132)
\* and in that of the orchestrator's fallback (lines 646-655).
C18_MargemMonotona ==
    op = "derivar_confianca" =>
        \A p1 \in {x \in Pontuacoes : FMenor(x, ret.valor.score_p)} :
            LET local == ClassificarPorTotais(p1, ret.valor.score_i)
                fallback == ClassificarPorDiferenca(p1, ret.valor.score_i)
            IN  /\ local.categoria = "Produtivo"
                      => /\ ret.valor.local.categoria = "Produtivo"
                         /\ local.confianca <= ret.valor.local.confianca
                /\ fallback.categoria = "Produtivo"
                      => /\ ret.valor.fallback.categoria = "Produtivo"
                         /\ fallback.confianca <= ret.valor.fallback.confianca

\* productive score 4.5 against unproductive 1.0: both derivations say
\* Produtivo, with more confidence than for the productive score 2.5
C18_Witness ==
    /\ op = "derivar_confianca"
    /\ ret.valor.score_p = Dec(45, 10)
    /\ ret.valor.score_i = Dec(10, 10)
    /\ ClassificarPorTotais(Dec(25, 10), Dec(10, 10)).categoria = "Produtivo"
    /\ ClassificarPorTotais(Dec(25, 10), Dec(10, 10)).confianca < ret.valor.local.confianca
    /\ ClassificarPorDiferenca(Dec(25, 10), Dec(10, 10)).categoria = "Produtivo"
    /\ ClassificarPorDiferenca(Dec(25, 10), Dec(10, 10)).confianca
          < ret.valor.fallback.confianca


\* C19: from_string returns the member c for every upper/lower-casing of
\* c's value, and raises a ValueError that names the value, returning no
\* member, for every string that is no casing of a member's value (from_string
\* trims the string first: a casing between spaces is a casing).
C19_FromString ==
    op = "from_string" =>
        /\ \A k \in 1..Len(CategoriaEmail) :
              texto_email \in Caixas(CategoriaEmail[k].value)
                  => ret = Retorno("membro", CategoriaEmail[k].name)
        /\ strip(texto_email) \notin CaixasDosMembros
              => /\ ret.tipo = "excecao"
                 /\ ret.valor.classe = "ValueError"
                 /\ ret.valor.msg = "Categoria inv\\xe1lida: " \o texto_email

C19_Witness ==
    /\ op = "from_string"
    /\ texto_email = "iMPRODutivo"
    /\ ret = Retorno("membro", "IMPRODUTIVO")

\* the confidence of the classification registered last
ConfiancaRegistrada == classification_history[Len(classification_history)].confianca

MensagemDeConfianca == "Confian\\xe7a deve estar entre 0 e 1, recebido: {}"

\* C20: an EmailResponse built with a confidence outside [0, 1] raises the
\* ValueError that reports that confidence, and the confidence is never
\* brought into the range: whenever processar_email ends for a valid text,
\* an EmailResponse it returns has a confidence in [0, 1]; and when the
\* call registered its classification, a registered confidence outside
\* [0, 1] ended the call with that ValueError and a returned EmailResponse
\* carries exactly the registered confidence.
C20_ConfiancaForaDaFaixaFalha ==
    [][ (ProcessarRetornou' /\ texto_email' # "") =>
          /\ ret'.tipo = "EmailResponse"
                => 0 <= ret'.valor.confianca /\ ret'.valor.confianca <= 1000
          /\ classification_history' # classification_history
                => /\ (ConfiancaRegistrada' < 0 \/ ConfiancaRegistrada' > 1000)
                         => /\ ret'.tipo = "excecao"
                            /\ ret'.valor.classe = "ValueError"
                            /\ ret'.valor.msg = MensagemDeConfianca
                            /\ ret'.valor.n = ConfiancaRegistrada'
                   /\ ret'.tipo = "EmailResponse"
                         => ret'.valor.confianca = ConfiancaRegistrada' ]_vars

\* a classification with a confidence above 1 made the construction fail
C20_Witness ==
    /\ ProcessarRetornou
    /\ texto_email # ""
    /\ Len(classification_history) > 0
    /\ ConfiancaRegistrada > 1000
    /\ ret.tipo = "excecao"
    /\ ret.valor.msg = MensagemDeConfianca
    /\ ret.valor.n = ConfiancaRegistrada


FallbackRetornou == op = "classificar_localmente_aprimorado"

\* some pattern of the list matches the lower-case text of the call
AlgumPadrao(lista) == \E k \in 1..Len(lista) : re_search(lista[k], lower(texto_email))

\* D: the productive score minus the unproductive score of the text, exactly
MargemDoTexto ==
    DSoma(_calcular_score_produtivo(lower(texto_email)),
          DNeg(_calcular_score_improdutivo(lower(texto_email))))

\* the confidence c, in thousandths, is min(0.95, 0.7 + 0.1 |D|) to three
\* decimals: at most half a thousandth away from it
ConfiancaDaMargem(c) ==
    LET linear == DSoma(FInt(700), DMul(DAbs(MargemDoTexto), FInt(100)))
        referencia == IF DCmp(linear, FInt(950)) > 0 THEN FInt(950) ELSE linear
    IN  DCmp(DMul(DAbs(DSoma(FInt(c), DNeg(referencia))), FInt(2)), FInt(1)) <= 0

\* C21: classificar_localmente_aprimorado returns Improdutivo/0.92 when a
\* strong-social pattern matches, even if an urgent one matches too;
\* otherwise Produtivo/0.88 when an urgent pattern matches; otherwise, with
\* D the productive minus the unproductive score, Produtivo/0.65 when
\* |D| <= 1.0, and else Produtivo for D > 1.0 and Improdutivo for D < -1.0,
\* with confidence min(0.95, 0.7 + 0.1 |D|).
C21_FallbackDeReferencia ==
    FallbackRetornou =>
        /\ ret.tipo = "resultado"
        /\ AlgumPadrao(SociaisFortesRe) => ret.valor = Res("Improdutivo", 920)
        /\ (~AlgumPadrao(SociaisFortesRe) /\ AlgumPadrao(UrgentesRe))
              => ret.valor = Res("Produtivo", 880)
        /\ (~AlgumPadrao(SociaisFortesRe) /\ ~AlgumPadrao(UrgentesRe))
              => /\ DCmp(DAbs(MargemDoTexto), FInt(1)) <= 0
                       => ret.valor = Res("Produtivo", 650)
                 /\ DCmp(MargemDoTexto, FInt(1)) > 0
                       => /\ ret.valor.categoria = "Produtivo"
                          /\ ConfiancaDaMargem(ret.valor.confianca)
                 /\ DCmp(MargemDoTexto, FInt(-1)) < 0
                       => /\ ret.valor.categoria = "Improdutivo"
                          /\ ConfiancaDaMargem(ret.valor.confianca)

\* a text with an urgent and a strong-social pattern is Improdutivo at 0.92
C21_Witness ==
    /\ FallbackRetornou
    /\ texto_email = "Sistema fora do ar, muito obrigado"
    /\ AlgumPadrao(UrgentesRe)
    /\ AlgumPadrao(SociaisFortesRe)
    /\ ret.valor = Res("Improdutivo", 920)


\* classificar_localmente returned by its scoring path: no strong-social
\* phrase occurs in the text
ViaPontuacao ==
    /\ op = "classificar_localmente"
    /\ _analisar_contexto_geral(lower(texto_email)) # "social_forte"

\* the final scores <<total_produtivo, total_improdutivo>> of the text: the
\* keyword scores plus the pattern scores, adjusted
TotaisDoTexto ==
    LET palavras == _analise_palavras_chave_contextual(
                        preprocessar_texto_avancado(texto_email), lower(texto_email))
        padroes == _analise_padroes_linguisticos(lower(texto_email))
    IN  _ajuste_final_contextual(lower(texto_email), FSoma(palavras[1], padroes[1]),
                                 FSoma(palavras[2], padroes[2]))

Derivou == op = "derivar_confianca"

\* C22: on the scoring path of classificar_localmente the category is
\* Produtivo exactly when the final productive score is strictly greater
\* than the final unproductive score, and Improdutivo otherwise.
C22_ProdutivoSseMaior ==
    /\ ViaPontuacao =>
          /\ ret.valor.categoria \in {"Produtivo", "Improdutivo"}
          /\ ret.valor.categoria = "Produtivo" <=> FMaior(TotaisDoTexto[1], TotaisDoTexto[2])
    /\ Derivou =>
          /\ ret.valor.local.categoria \in {"Produtivo", "Improdutivo"}
          /\ ret.valor.local.categoria = "Produtivo"
                <=> FMaior(ret.valor.score_p, ret.valor.score_i)

\* a text whose unproductive score is the greater one is Improdutivo
C22_Witness ==
    /\ ViaPontuacao
    /\ texto_email = "oi tudo bem!!! gostei"
    /\ TotaisDoTexto = <<FZero, Dec(33, 10)>>
    /\ ret.valor.categoria = "Improdutivo"

\* C23 as stated: on the scoring path, equal final scores (both zero
\* included) give Produtivo.
C23_EmpateProdutivo ==
    /\ (ViaPontuacao /\ TotaisDoTexto[1] = TotaisDoTexto[2])
          => ret.valor.categoria = "Produtivo"
    /\ (Derivou /\ ret.valor.score_p = ret.valor.score_i)
          => ret.valor.local.categoria = "Produtivo"

\* C23 amended: on the scoring path, equal final scores give Improdutivo,
\* with confidence 0.6 when both are zero and 0.55 otherwise.
C23_EmpateImprodutivo ==
    /\ (ViaPontuacao /\ TotaisDoTexto[1] = TotaisDoTexto[2])
          => ret.valor = Res("Improdutivo", IF TotaisDoTexto[1] = FZero THEN 600 ELSE 550)
    /\ (Derivou /\ ret.valor.score_p = ret.valor.score_i)
          => ret.valor.local = Res("Improdutivo",
                                   IF ret.valor.score_p = FZero THEN 600 ELSE 550)

\* a question word (1.5) against 'feliz' (1.5)
C23_Witness ==
    /\ ViaPontuacao
    /\ texto_email = "Quando voce fica feliz"
    /\ TotaisDoTexto = <<Dec(15, 10), Dec(15, 10)>>
    /\ ret.valor = Res("Improdutivo", 550)

\* the confidence of C24 for the scores p and i, computed exactly, in
\* thousandths, as the quotient num / den: 0.6 when p + i = 0, else
\* min(0.95, |p - i| / (p + i)) plus 0.15, 0.08 or -0.10, clamped to
\* [0.55, 0.98]
ConfiancaDeReferencia(p, i) ==
    IF Len(DSoma(p, i).mant) = 0 THEN [num |-> FInt(600), den |-> FInt(1)]
    ELSE LET d == DAbs(DSoma(p, DNeg(i)))
             den == DSoma(p, i)
             base == IF DCmp(DMul(d, FInt(1000)), DMul(den, FInt(950))) < 0
                     THEN DMul(d, FInt(1000)) ELSE DMul(den, FInt(950))
             ajuste == IF DCmp(d, FInt(3)) > 0 THEN 150
                       ELSE IF DCmp(DMul(d, FInt(2)), FInt(3)) > 0 THEN 80
                       ELSE -100
             soma == DSoma(base, DMul(den, FInt(ajuste)))
         IN  [num |-> IF DCmp(soma, DMul(den, FInt(550))) < 0 THEN DMul(den, FInt(550))
                      ELSE IF DCmp(soma, DMul(den, FInt(980))) > 0 THEN DMul(den, FInt(980))
                      ELSE soma,
              den |-> den]

\* the confidence c, in thousandths, is exactly the confidence of reference
IgualAReferencia(c, p, i) ==
    DCmp(DMul(FInt(c), ConfiancaDeReferencia(p, i).den), ConfiancaDeReferencia(p, i).num) = 0

\* the confidence c, in thousandths, is the confidence of reference rounded
\* to three decimals: at most half a thousandth away from it, give or take
\* the error of the floating-point division and additions of the code, which
\* is far below the 10^-9 of a thousandth allowed here
ReferenciaArredondada(c, p, i) ==
    LET r == ConfiancaDeReferencia(p, i)
        erro == DAbs(DSoma(DMul(FInt(c), r.den), DNeg(r.num)))
    IN  DCmp(DMul(erro, FInt(2 * 10 ^ 9)), DMul(r.den, FInt(10 ^ 9 + 1))) <= 0

\* C24 as stated: on the scoring path the confidence returned is exactly the
\* confidence of reference of the final scores.
C24_ConfiancaExata ==
    /\ ViaPontuacao => IgualAReferencia(ret.valor.confianca, TotaisDoTexto[1], TotaisDoTexto[2])
    /\ Derivou => IgualAReferencia(ret.valor.local.confianca,
                                   ret.valor.score_p, ret.valor.score_i)

\* C24 amended: on the scoring path the confidence returned is the
\* confidence of reference of the final scores rounded to three decimals;
\* classificar_localmente never returns a confidence outside [0.55, 0.98].
C24_ConfiancaArredondada ==
    /\ ViaPontuacao => ReferenciaArredondada(ret.valor.confianca,
                                             TotaisDoTexto[1], TotaisDoTexto[2])
    /\ Derivou => /\ ReferenciaArredondada(ret.valor.local.confianca,
                                           ret.valor.score_p, ret.valor.score_i)
                  /\ 550 <= ret.valor.local.confianca
                  /\ ret.valor.local.confianca <= 980
    /\ op = "classificar_localmente"
          => 550 <= ret.valor.confianca /\ ret.valor.confianca <= 980

\* scores 2.4 and 0.5: 1.9 / 2.9 + 0.08 = 0.73517..., returned as 0.735
C24_Witness ==
    /\ ViaPontuacao
    /\ texto_email = "Bom dia, preciso instalar o programa por favor"
    /\ TotaisDoTexto = <<Dec(24, 10), Dec(5, 10)>>
    /\ ~IgualAReferencia(ret.valor.confianca, Dec(24, 10), Dec(5, 10))
    /\ ret.valor.confianca = 735


\* the completion of the response that gerar_resposta went on with, cleaned
CompletacaoLimpa ==
    _limpar_resposta_gerada(
        IF resposta_vencedora.corpo.itens[1].tipo = "texto"
        THEN resposta_vencedora.corpo.itens[1].generated_text
        ELSE "",
        Prompt(ret.valor.categoria, ret.valor.texto))

\* the remote call succeeded and its cleaned completion is longer than 15
\* characters
RemotoAceito ==
    /\ resposta_vencedora.status > 0
    /\ resposta_vencedora.status < 400
    /\ resposta_vencedora.corpo.tipo = "lista"
    /\ Len(resposta_vencedora.corpo.itens) > 0
    /\ resposta_vencedora.corpo.itens[1].tipo \in {"texto", "sem_texto"}
    /\ Len(CompletacaoLimpa) > 15

\* C25: gerar_resposta returns the cleaned remote completion exactly when
\* the remote call succeeded with a cleaned completion longer than 15
\* characters; in every other case the reply is that of the
\* confidence/keyword-driven generator, gerar_resposta_avancada with the
\* confidence classificar_localmente estimates for the text, which comes
\* before the hash-selected banks of gerar_resposta_local.
C25_CadeiaDePrioridade ==
    op = "gerar_resposta" =>
        IF RemotoAceito
        THEN UltimaResposta.texto = CompletacaoLimpa
        ELSE UltimaResposta.texto =
                gerar_resposta_avancada(ret.valor.categoria, ret.valor.texto,
                                        classificar_localmente(ret.valor.texto).confianca)


AnalisouPalavras == op = "_analise_palavras_chave_contextual"

\* the tokens of the text of the call: its lower-case form split at spaces
TokensDoTexto == SplitWs(lower(texto_email))

\* the tokens of frase are the tokens a, a + 1, ... of the text
OcorreEm(frase, a) ==
    /\ a >= 1
    /\ a + Len(SplitWs(frase)) - 1 <= Len(TokensDoTexto)
    /\ \A j \in 1..Len(SplitWs(frase)) : TokensDoTexto[a + j - 1] = SplitWs(frase)[j]

\* some occurrence of frase has a gratitude or praise term, other than frase
\* itself, among the tokens from 3 before it to 3 after it
PertoDeAgradecimento(frase) ==
    \E a \in 1..Len(TokensDoTexto) :
        /\ OcorreEm(frase, a)
        /\ \E k \in 1..Len(contextos_agradecimento) :
              /\ contextos_agradecimento[k] # frase
              /\ \E c \in 1..Len(TokensDoTexto) :
                    /\ OcorreEm(contextos_agradecimento[k], c)
                    /\ c >= a - 3
                    /\ c + Len(SplitWs(contextos_agradecimento[k])) - 1
                          <= a + Len(SplitWs(frase)) - 1 + 3

RECURSIVE SomaEsperada(_, _, _, _)
\* soma plus the weights of the phrases of mapa, from the k-th on, that are
\* present in the cleaned text; with suprimir, those near a gratitude term
\* count nothing
SomaEsperada(mapa, suprimir, k, soma) ==
    IF k > Len(mapa) THEN soma
    ELSE SomaEsperada(mapa, suprimir, k + 1,
                      IF /\ Contem(preprocessar_texto_avancado(texto_email), mapa[k][1])
                         /\ ~(suprimir /\ PertoDeAgradecimento(mapa[k][1]))
                      THEN FSoma(soma, mapa[k][2])
                      ELSE soma)

\* C26: the productive score is the sum of the weights of the productive
\* phrases present in the text, single-word or multi-word, except those with
\* an occurrence within 3 tokens of a gratitude or praise term; the
\* unproductive score is the sum of the weights of all the unproductive
\* phrases present.
C26_SupressaoPorJanela ==
    AnalisouPalavras =>
        /\ ret.valor.score_produtivo = SomaEsperada(palavras_produtivas, TRUE, 1, FZero)
        /\ ret.valor.score_improdutivo = SomaEsperada(palavras_improdutivas, FALSE, 1, FZero)


\* a step that ends a call of processar_email with a response
ProcessarRespondeu ==
    op' = "processar_email" /\ pc' = "idle" /\ ret'.tipo = "EmailResponse"

\* a step of processar_lote that appends the record of one item
LoteRegistrou ==
    /\ op = "processar_lote"
    /\ op' = "processar_lote"
    /\ Len(resultados') = Len(resultados) + 1

\* the records of a batch that are no error records
Sucessos(registros) == {i \in 1..Len(registros) : registros[i].categoria # "ERRO"}

\* C27: the total counter is the sum of the two category counters; a call of
\* processar_email that returns a response raises the total by exactly 1, and
\* a batch raises it, item by item, by 1 for a success record and by 0 for an
\* error record, so by the number of success records it returns.
C27_ContagemDeSucessos ==
    [][ /\ metrics'.total_emails_processados
              = metrics'.emails_produtivos + metrics'.emails_improdutivos
        /\ ProcessarRespondeu
              => metrics'.total_emails_processados = metrics.total_emails_processados + 1
        /\ op' = "processar_lote"
              => metrics'.total_emails_processados - metrics.total_emails_processados
                    = IF LoteRegistrou
                      THEN Cardinality(Sucessos(resultados')) - Cardinality(Sucessos(resultados))
                      ELSE 0 ]_vars


\* C28: a call of processar_email that raises leaves the engine state as it
\* was before the call: no step of the call other than the one that returns
\* a response changes the metrics counters or the classification history.
C28_ExcecaoSemEfeito ==
    [][ (op' = "processar_email" /\ ~ProcessarRespondeu)
            => UNCHANGED <<metrics, classification_history>> ]_vars


\* C30: processar_lote applied to the empty sequence returns the empty
\* sequence; it does not raise.
C30_LoteVazio ==
    (op = "processar_lote" /\ pc = "idle" /\ emails = <<>>) => ret = Retorno("lote", <<>>)


\* a step that changes the history ends a remote classification that
\* succeeded, and the entry now last carries the category and the confidence
\* returned
RegistroDoRemoto ==
    /\ pc = "hf"
    /\ pc' = "idle"
    /\ InterpretarResposta(modelos[modelo_idx], resposta_vencedora').ok
    /\ ret'.tipo = "resultado"
    /\ Len(classification_history') >= 1
    /\ classification_history'[Len(classification_history')].categoria = ret'.valor.categoria
    /\ classification_history'[Len(classification_history')].confianca = ret'.valor.confianca

\* the entries of the history before the entry now last
EntradasAnteriores == SubSeq(classification_history', 1, Len(classification_history') - 1)

\* a step that ends a call of classificar_email answered by the short-input
\* default or by the local fallback
RespondeuSemRemoto ==
    /\ op' = "classificar_email"
    /\ pc' = "idle"
    /\ TextoCurto(texto_email') \/ falhou' = TodosOsModelos

\* C29 as stated: the history changes only at a remote success, and then it
\* is the history of before with exactly one entry appended; a call answered
\* by the short-input default or by the local fallback leaves it unchanged.
C29_UmaEntradaAcrescentada ==
    [][ /\ classification_history' # classification_history
              => RegistroDoRemoto /\ EntradasAnteriores = classification_history
        /\ RespondeuSemRemoto => UNCHANGED classification_history ]_vars

\* C29: the history changes only at a remote success, and then it is the
\* history of before, less its oldest entry when it already held 100, with
\* exactly one entry appended that carries the category and the confidence
\* returned; a call answered by the short-input default or by the local
\* fallback leaves it unchanged.
C29_UmaEntradaEDescarte ==
    [][ /\ classification_history' # classification_history
              => /\ RegistroDoRemoto
                 /\ EntradasAnteriores = IF Len(classification_history) >= 100
                                         THEN Tail(classification_history)
                                         ELSE classification_history
        /\ RespondeuSemRemoto => UNCHANGED classification_history ]_vars

\* a remote success recorded in a full history, after a call that recorded
\* nothing
C29_Witness ==
    /\ ClassificarRetornou
    /\ chamadas > relogio
    /\ relogio = 101
    /\ Len(classification_history) = 100
    /\ InterpretarResposta(modelos[modelo_idx], resposta_vencedora).ok
    /\ classification_history[100].categoria = ret.valor.categoria
    /\ classification_history[100].confianca = ret.valor.confianca
    /\ classification_history[1].timestamp = 2

====
